---- MODULE Spec2Model ----
(***************************************************************************)
(* Model of the access-restriction evaluator of the moodle client library: *)
(* the Restriction / RestrictionC / CourseGroup types and the method       *)
(* Restriction.IsRestricted, together with the statements a caller uses to *)
(* build a rule and a learner's group list (as TestRestriction does).      *)
(***************************************************************************)
EXTENDS Integers, Sequences, FiniteSets, TLC

(* ---------------------------- bounds ----------------------------------- *)

\* longest conditions list (rules.C) a caller builds
MaxConds == 2
\* longest learner group list a caller builds
MaxGroups == 2
\* longest per-condition visibility list (rules.ShowC) a caller builds
MaxShowC == 1
\* longest group list of a learner whose call runs concurrently with another
MaxConcGroups == 1
\* longest "c" array of an availability payload the server sends
MaxPayloadConds == 1
\* longest "showc" array of an availability payload the server sends
MaxPayloadShowC == 1
\* longest list of groups or of accounts in a server response
MaxListed == 2
\* number of distinct values random.Intn(len(rst)) yields
MaxDraws == 4
\* number of distinct values random.Int31n yields
MaxForced == 3
\* longest username, in pieces, a caller passes to UpdateUser
MaxText == 4
\* longest password, in pieces, a caller passes to UpdateUser
MaxPassword == 1
\* The submissions in the answer to mod_assign_get_submissions.
MaxSubmissions == 2
\* The user flags in the answer to mod_assign_get_user_flags.
MaxFlags == 2

(* ---------------------------- data model ------------------------------- *)

\* The operator strings a caller may store in Restriction.OP: the four the
\* switch of IsRestricted knows, an unknown one and the empty string (the
\* zero value of the field).
KnownOperators == {"&", "!&", "|", "!|"}
Operators == KnownOperators \cup {"?", ""}

\* type RestrictionC struct { Type string; Id int64; D string; T int64 }
RestrictionC(type, id, d, t) == [Type |-> type, Id |-> id, D |-> d, T |-> t]

\* The conditions a caller appends: group conditions for groups 10 and 20
\* (the ids TestRestriction uses) and the date condition of the test's last
\* comment, whose JSON has no "id" so that Id keeps its zero value.
GroupConditions == {RestrictionC("group", id, "", 0) : id \in {10, 20}}
DateConditions == {RestrictionC("date", 0, ">=", 1541682000)}
Conditions == GroupConditions \cup DateConditions

\* type CourseGroup struct { Id int64; Name string; Description string }
\* Name and Description are never read by IsRestricted and are left "".
CourseGroup(id) == [Id |-> id, Name |-> "", Description |-> ""]

\* The groups a learner may belong to: the two the conditions name and one
\* (id 0) that no group condition names.
LearnerGroups == {CourseGroup(id) : id \in {0, 10, 20}}

\* The group list literals a caller assigns: every list of at most MaxGroups
\* groups, in any order and with repetitions.
GroupLists == UNION {[1..n -> LearnerGroups] : n \in 0..MaxGroups}

\* &Restriction{}: every field at its zero value.  A nil slice is the empty
\* sequence: len and range treat a nil slice as one of length 0.
NewRestrictionValue == [OP |-> "", C |-> <<>>, Show |-> FALSE, ShowC |-> <<>>]

(* ---------------------------- encoding/json ---------------------------- *)

\* A member of a JSON object whose Go field is a string, an int64 or a bool,
\* as json.Unmarshal meets it: the key is absent, or its value is null, a
\* string, a number or a boolean.
JAbsent == [k |-> "absent", s |-> "", n |-> 0, b |-> FALSE]
JNull == [k |-> "null", s |-> "", n |-> 0, b |-> FALSE]
JString(x) == [k |-> "string", s |-> x, n |-> 0, b |-> FALSE]
JNumber(x) == [k |-> "number", s |-> "", n |-> x, b |-> FALSE]
JBool(x) == [k |-> "bool", s |-> "", n |-> 0, b |-> x]

\* A member whose Go field is a slice: absent, null, a value of another kind
\* ("string") or an array of elements.
JNoArray(kind) == [k |-> kind, a |-> <<>>]
JArray(elems) == [k |-> "array", a |-> elems]

\* json.Unmarshal into a field of type string, int64, bool: an absent key
\* and a null leave the field at the value it has (the zero value here), a
\* value of the field's kind is stored, any other kind is an
\* UnmarshalTypeError.
StringField(m) ==
    [err |-> m.k \notin {"absent", "null", "string"},
     v |-> IF m.k = "string" THEN m.s ELSE ""]
Int64Field(m) ==
    [err |-> m.k \notin {"absent", "null", "number"},
     v |-> IF m.k = "number" THEN m.n ELSE 0]
BoolField(m) ==
    [err |-> m.k \notin {"absent", "null", "bool"},
     v |-> IF m.k = "bool" THEN m.b ELSE FALSE]

\* json.Unmarshal of one element of "c" into RestrictionC with every tag but
\* "type" and "id" lost (D and T tagged `json:"-"`).
UnmarshalRestrictionCGroupOnly(o) ==
    LET type == StringField(o.type)
        id == Int64Field(o.id)
    IN  [err |-> type.err \/ id.err,
         v |-> RestrictionC(type.v, id.v, "", 0)]

\* json.Unmarshal of one element of "c" into
\*     RestrictionC{Type `json:"type"`, Id `json:"id"`, D `json:"d"`, T `json:"t"`}
UnmarshalRestrictionC(o) ==
    LET type == StringField(o.type)
        id == Int64Field(o.id)
        d == StringField(o.d)
        t == Int64Field(o.t)
    IN  [err |-> type.err \/ id.err \/ d.err \/ t.err,
         v |-> RestrictionC(type.v, id.v, d.v, t.v)]

\* The outcome of a decoding that met no error and produced v.
NoError(v) == [err |-> FALSE, v |-> v]

\* json.Unmarshal([]byte(text), &into) for a Restriction
\*     {OP `json:"op"`, C `json:"c"`, Show `json:"show"`, ShowC `json:"showc"`}
\* text.k = "malformed": not JSON (a SyntaxError); "null": the literal null,
\* which leaves the target alone; "array": JSON of another kind than an
\* object (an UnmarshalTypeError); "object": an object with the members
\* text.o.  A member that fails does not stop the others, the error is
\* returned at the end.
UnmarshalRestriction(text, into) ==
    CASE text.k = "null" -> NoError(into)
      [] text.k = "object" ->
            LET op == StringField(text.o.op)
                c == [i \in DOMAIN text.o.c.a |-> UnmarshalRestrictionC(text.o.c.a[i])]
                show == BoolField(text.o.show)
                showc == [i \in DOMAIN text.o.showc.a |-> BoolField(text.o.showc.a[i])]
            IN  [err |-> \/ op.err \/ show.err
                         \/ text.o.c.k \notin {"absent", "null", "array"}
                         \/ text.o.showc.k \notin {"absent", "null", "array"}
                         \/ \E i \in DOMAIN c : c[i].err
                         \/ \E i \in DOMAIN showc : showc[i].err,
                 v |-> [OP |-> IF text.o.op.k \in {"absent", "null"} THEN into.OP ELSE op.v,
                        C |-> IF text.o.c.k = "absent" THEN into.C
                              ELSE [i \in DOMAIN c |-> c[i].v],
                        Show |-> IF text.o.show.k \in {"absent", "null"} THEN into.Show
                                 ELSE show.v,
                        ShowC |-> IF text.o.showc.k = "absent" THEN into.ShowC
                                  ELSE [i \in DOMAIN showc |-> showc[i].v]]]
      [] OTHER -> [err |-> TRUE, v |-> into]

\* json.Marshal of a RestrictionC and of a Restriction: every field has a
\* tag without omitempty, so every key is written; a slice with no element
\* is written as the nil slice of &Restriction{} is, as null.
MarshalRestrictionC(c) ==
    [type |-> JString(c.Type), id |-> JNumber(c.Id),
     d |-> JString(c.D), t |-> JNumber(c.T)]
MarshalRestriction(r) ==
    [k |-> "object",
     o |-> [op |-> JString(r.OP),
            c |-> IF r.C = <<>> THEN JNoArray("null")
                  ELSE JArray([i \in DOMAIN r.C |-> MarshalRestrictionC(r.C[i])]),
            show |-> JBool(r.Show),
            showc |-> IF r.ShowC = <<>> THEN JNoArray("null")
                      ELSE JArray([i \in DOMAIN r.ShowC |-> JBool(r.ShowC[i])])]]

(* ---------------------------- server responses ------------------------ *)

\* The elements of "c" the server sends: group and date conditions, the id
\* absent (as in a date condition), a number, or a string; d and t absent or
\* as in the date condition {"type":"date","d":">=","t":1541682000}.
PayloadConditions ==
    [type : {JString("group"), JString("date")},
     id : {JAbsent, JNumber(10), JString("10")},
     d : {JAbsent, JString(">=")},
     t : {JAbsent, JNumber(1541682000)}]

\* The availability objects the server sends.
PayloadObjects ==
    [op : {JAbsent, JString("&"), JString("|")},
     c : {JNoArray("absent"), JNoArray("null")}
         \cup {JArray(a) : a \in UNION {[1..n -> PayloadConditions] : n \in 1..MaxPayloadConds}},
     show : {JAbsent, JBool(TRUE)},
     showc : {JNoArray("absent")}
             \cup {JArray(a) : a \in UNION {[1..n -> {JBool(FALSE)}] : n \in 1..MaxPayloadShowC}}]

NoObject ==
    [op |-> JAbsent, c |-> JNoArray("absent"), show |-> JAbsent,
     showc |-> JNoArray("absent")]

\* The value of the string member "availability" of a course module: the
\* empty string, text that is not JSON, the text null, or an object.
NoText == [k |-> "empty", o |-> NoObject]
AvailabilityTexts ==
    {NoText, [k |-> "malformed", o |-> NoObject], [k |-> "null", o |-> NoObject]}
    \cup {[k |-> "object", o |-> o] : o \in PayloadObjects}

\* The member "availability": absent, or a string holding a text.
JNoText == [k |-> "absent", text |-> NoText]
JText(text) == [k |-> "string", text |-> text]

\* The "cm" objects of core_course_get_course_module.  Of the integer and
\* string members only id and visible are followed; course, module,
\* instance, section, modname, name, grade and added are decoded and copied
\* exactly as id is.
NoModule == [id |-> JAbsent, visible |-> JAbsent, availability |-> JNoText]
PayloadModules ==
    [id : {JNumber(7), JString("7")},
     visible : {JAbsent, JNumber(1)},
     availability : {JNoText} \cup {JText(text) : text \in AvailabilityTexts}]

\* The elements of the array core_group_get_course_groups answers with.
PayloadGroups ==
    [id : {JNumber(10), JNumber(20), JString("10")},
     name : {JString("Tutorial A")},
     description : {JAbsent}]

\* The elements of the array core_user_get_users_by_field answers with.
PayloadUsers ==
    [id : {JNumber(1), JNumber(2), JString("1")},
     username : {JString("amy")},
     profileimageurl : {JAbsent, JString("https://secure.gravatar.com/avatar/1")}]

\* A response body: whether it starts with {"exception":" and what it
\* parses as.  k = "malformed": not JSON; "null"; "object": an object, with
\* the member cm when cm.k = "object"; "array": an array, of groups or of
\* accounts.
Body(envelope, k, cm, gs, us) ==
    [envelope |-> envelope, k |-> k, cm |-> cm, gs |-> gs, us |-> us]
NoCM == [k |-> "absent", o |-> NoModule]
NoBody == Body(FALSE, "none", NoCM, <<>>, <<>>)

\* {"exception":"...","errorcode":"...","message":"..."}, whole or cut off.
ExceptionBodies ==
    {Body(TRUE, "object", NoCM, <<>>, <<>>), Body(TRUE, "malformed", NoCM, <<>>, <<>>)}

\* Bodies no getter can decode, and bodies with nothing in them.
OtherBodies ==
    {Body(FALSE, "malformed", NoCM, <<>>, <<>>), Body(FALSE, "null", NoCM, <<>>, <<>>),
     Body(FALSE, "object", NoCM, <<>>, <<>>), Body(FALSE, "array", NoCM, <<>>, <<>>)}

ModuleBodies ==
    {Body(FALSE, "object", [k |-> "object", o |-> o], <<>>, <<>>) : o \in PayloadModules}
GroupBodies ==
    {Body(FALSE, "array", NoCM, gs, <<>>) :
        gs \in UNION {[1..n -> PayloadGroups] : n \in 1..MaxListed}}
UserBodies ==
    {Body(FALSE, "array", NoCM, <<>>, us) :
        us \in UNION {[1..n -> PayloadUsers] : n \in 1..MaxListed}}

\* The getters followed, and the bodies the server may answer each with.
PersonGetters == {"GetPersonByUsername", "GetPersonByMoodleId", "GetPersonByEmail"}
Getters == {"GetCourseModule", "GetCourseGroups"} \cup PersonGetters
Bodies(fn) ==
    ExceptionBodies \cup OtherBodies
    \cup CASE fn = "GetCourseModule" -> ModuleBodies
           [] fn = "GetCourseGroups" -> GroupBodies
           [] OTHER -> UserBodies

(* ---------------------------- the getters ----------------------------- *)

\* A Go error value: nil, or errors.New(msg) (not nil even when msg is "").
NilError == [nil |-> TRUE, msg |-> ""]
NewError(msg) == [nil |-> FALSE, msg |-> msg]

\* The errors m.fetch.GetUrl returns.
FetchErrors == {NewError("dial tcp: connection refused")}

\* type CourseModuleInt struct (local to GetCourseModule) and CourseModule.
CourseModuleInt(id, visible, availability) ==
    [Id |-> id, Visible |-> visible, Availability |-> availability]
CourseModule(id, visible, availability) ==
    [Id |-> id, Visible |-> visible, Availability |-> availability]

\* type Result struct (local to the GetPersonBy... functions) and Person.
Result(id, username, profileImageUrl) ==
    [Id |-> id, Username |-> username, ProfileImageUrl |-> profileImageUrl]
Person(moodleId, username, profileImageUrl) ==
    [MoodleId |-> moodleId, Username |-> username, ProfileImageUrl |-> profileImageUrl]

\* What a getter has decoded (var result Result / var results []...), and
\* what it returns next to the error.
NoResult ==
    [CM |-> CourseModuleInt(0, 0, NoText), groups |-> <<>>, users |-> <<>>]
Nil ==
    [k |-> "nil", cm |-> CourseModule(0, FALSE, NewRestrictionValue),
     groups |-> <<>>, person |-> Person(0, "", "")]
ReturnModule(cm) == [Nil EXCEPT !.k = "module", !.cm = cm]
ReturnGroups(gs) == [Nil EXCEPT !.k = "groups", !.groups = gs]
ReturnPerson(q) == [Nil EXCEPT !.k = "person", !.person = q]

\* func readError(body string) string: the message of an exception body
\* that parses, "" for one that does not.
readError(body) ==
    IF body.envelope /\ body.k = "object" THEN "Invalid token" ELSE ""

\* json.Unmarshal([]byte(body), &result) in GetCourseModule
\* (type Result struct { CM CourseModuleInt `json:"cm"` }).
UnmarshalModule(body) ==
    CASE body.k = "null" -> NoError(NoResult)
      [] body.k = "object" ->
            LET o == body.cm.o
                id == Int64Field(o.id)
                visible == Int64Field(o.visible)
            IN  [err |-> id.err \/ visible.err,
                 v |-> [NoResult EXCEPT
                           !.CM = CourseModuleInt(id.v, visible.v, o.availability.text)]]
      [] OTHER -> [err |-> TRUE, v |-> NoResult]

\* json.Unmarshal([]byte(body), &results) in GetCourseGroups
\* (var results []CourseGroup).
UnmarshalGroups(body) ==
    CASE body.k = "null" -> NoError(NoResult)
      [] body.k = "array" ->
            LET id == [i \in DOMAIN body.gs |-> Int64Field(body.gs[i].id)]
                name == [i \in DOMAIN body.gs |-> StringField(body.gs[i].name)]
                description == [i \in DOMAIN body.gs |-> StringField(body.gs[i].description)]
            IN  [err |-> \E i \in DOMAIN body.gs :
                             id[i].err \/ name[i].err \/ description[i].err,
                 v |-> [NoResult EXCEPT
                           !.groups = [i \in DOMAIN body.gs |->
                                          [Id |-> id[i].v, Name |-> name[i].v,
                                           Description |-> description[i].v]]]]
      [] OTHER -> [err |-> TRUE, v |-> NoResult]

\* json.Unmarshal([]byte(body), &results) in the GetPersonBy... functions
\* (var results []Result).  Only the Result of GetPersonByEmail has the
\* field ProfileImageUrl; the other two ignore the key.
UnmarshalUsers(body, fn) ==
    CASE body.k = "null" -> NoError(NoResult)
      [] body.k = "array" ->
            LET id == [i \in DOMAIN body.us |-> Int64Field(body.us[i].id)]
                username == [i \in DOMAIN body.us |-> StringField(body.us[i].username)]
                url == [i \in DOMAIN body.us |->
                           IF fn = "GetPersonByEmail"
                           THEN StringField(body.us[i].profileimageurl)
                           ELSE NoError("")]
            IN  [err |-> \E i \in DOMAIN body.us :
                             id[i].err \/ username[i].err \/ url[i].err,
                 v |-> [NoResult EXCEPT
                           !.users = [i \in DOMAIN body.us |->
                                         Result(id[i].v, username[i].v, url[i].v)]]]
      [] OTHER -> [err |-> TRUE, v |-> NoResult]

Unmarshal(fn, body) ==
    CASE fn = "GetCourseModule" -> UnmarshalModule(body)
      [] fn = "GetCourseGroups" -> UnmarshalGroups(body)
      [] OTHER -> UnmarshalUsers(body, fn)

\* strings.Index(i.ProfileImageUrl, "gravatar") on the urls the server sends.
IndexGravatar(url) ==
    IF url = "https://secure.gravatar.com/avatar/1" THEN 15 ELSE -1

\* GetPersonByUsername, GetPersonByMoodleId after the decoding:
\*     if len(results) > 1 { return nil, errors.New("Multiple ...") }
\*     var person *Person
\*     for _, i := range results { person = &Person{...}; ...; break }
\*     return person, nil
PersonByField(results) ==
    IF Len(results) > 1
    THEN [ret |-> Nil, err |-> NewError("Multiple moodle accounts match this username")]
    ELSE IF Len(results) = 0
    THEN [ret |-> Nil, err |-> NilError]
    ELSE [ret |-> ReturnPerson(Person(results[1].Id, results[1].Username, "")),
          err |-> NilError]

\* The loop of GetPersonByEmail: a gravatar image url is blanked, every
\* result becomes a Person.
People(results) ==
    [i \in DOMAIN results |->
        Person(results[i].Id, results[i].Username,
               IF IndexGravatar(results[i].ProfileImageUrl) > 0 THEN ""
               ELSE results[i].ProfileImageUrl)]

\* GetPersonByEmail returning the first account whatever their number.
PersonByEmailFirst(results) ==
    IF Len(results) = 0
    THEN [ret |-> Nil, err |-> NilError]
    ELSE [ret |-> ReturnPerson(People(results)[1]), err |-> NilError]

\* GetPersonByEmail after the decoding:
\*     if len(people) == 0 { return nil, nil }
\*     if len(people) == 1 { return &people[0], nil }
\*     return nil, errors.New("Multiple moodle accounts match this email address")
PersonByEmail(results) ==
    LET people == People(results)
    IN  IF Len(people) = 0
        THEN [ret |-> Nil, err |-> NilError]
        ELSE IF Len(people) = 1
        THEN [ret |-> ReturnPerson(people[1]), err |-> NilError]
        ELSE [ret |-> Nil,
              err |-> NewError("Multiple moodle accounts match this email address")]

\* The trace, locals and return values of a getter nobody has called.
NoCall ==
    [fn |-> "", pc |-> "idle", body |-> NoBody, fetchErr |-> NilError,
     result |-> NoResult, cm |-> Nil.cm, ret |-> Nil, err |-> NilError,
     trace |-> <<>>]

(* ---------------------------- RandomPassword: data -------------------- *)

\* The byte value of a character: the letters, the digits and the dash.
UpperLetters ==
    <<"A", "B", "C", "D", "E", "F", "G", "H", "I", "J", "K", "L", "M",
      "N", "O", "P", "Q", "R", "S", "T", "U", "V", "W", "X", "Y", "Z">>
LowerLetters ==
    <<"a", "b", "c", "d", "e", "f", "g", "h", "i", "j", "k", "l", "m",
      "n", "o", "p", "q", "r", "s", "t", "u", "v", "w", "x", "y", "z">>
Digits ==
    <<"0", "1", "2", "3", "4", "5", "6", "7", "8", "9">>
Ord(ch) ==
    IF \E n \in DOMAIN UpperLetters : UpperLetters[n] = ch
    THEN 64 + (CHOOSE n \in DOMAIN UpperLetters : UpperLetters[n] = ch)
    ELSE IF \E n \in DOMAIN LowerLetters : LowerLetters[n] = ch
    THEN 96 + (CHOOSE n \in DOMAIN LowerLetters : LowerLetters[n] = ch)
    ELSE IF \E n \in DOMAIN Digits : Digits[n] = ch
    THEN 47 + (CHOOSE n \in DOMAIN Digits : Digits[n] = ch)
    ELSE 45

\* uint8 arithmetic
Uint8(n) == n % 256

\* const rst = "ABCDEFGHJKLMNPQRSTUVWXYZabcdefghijkmnopqrstuvwxyz23456789"
\* rst[x] for x counted from 0 is rst[x + 1] here.
rstChars ==
    <<"A", "B", "C", "D", "E", "F", "G", "H", "J", "K", "L", "M", "N", "P", "Q", "R", "S", "T", "U",
      "V", "W", "X", "Y", "Z", "a", "b", "c", "d", "e", "f", "g", "h", "i", "j", "k", "m", "n", "o",
      "p", "q", "r", "s", "t", "u", "v", "w", "x", "y", "z", "2", "3", "4", "5", "6", "7", "8", "9">>
rst == [x \in DOMAIN rstChars |-> Ord(rstChars[x])]

\* size := 10
size == 10

\* The values random.Intn(len(rst)) yields, most useful first: the indices
\* of A, B, a, 2, then b, 3, C, c, 4, Z, z, 9.
DrawOrder == <<0, 1, 24, 49, 25, 50, 2, 26, 51, 23, 48, 56>>
Draws == {DrawOrder[n] : n \in 1..MaxDraws} \cap (0..(Len(rst) - 1))

\* The values random.Int31n(n) yields: 0; 13 and 10, which give 'O' and 'l',
\* the letters the code replaces; then the largest, 24 and 7.
ForcedOrder == <<0, 13, 10, 24, 7, 1>>
Int31n(n) == {ForcedOrder[k] : k \in 1..MaxForced} \cap (0..(n - 1))

\* The locals of RandomPassword before the call.
NoPassword ==
    [pc |-> "idle", i |-> 0, bytes |-> <<>>, hasNumber |-> FALSE,
     hasLowercase |-> FALSE, hasUppercase |-> FALSE, last |-> 0, ret |-> <<>>]

\* No method that changes the server's data is running.
NoJob == [fn |-> "", pc |-> "idle"]

(* ---------------------------- state ------------------------------------ *)

VARIABLES
    rules,   \* the *Restriction the caller holds
    groups,  \* the []CourseGroup the caller holds
    pc,      \* "caller": between the caller's statements;
             \* "returned": rules.IsRestricted(groups) has just returned;
             \* any other value: the statement of IsRestricted to run next
    ret,     \* at "returned": the value the call returned; the caller's next
             \* statement discards it (FALSE)
    ci,      \* IsRestricted: number of conditions the outer range has taken
    gi,      \* IsRestricted: number of groups the inner range has taken
    found,   \* IsRestricted: the local variable found
    first,   \* history: <<v>> when the calls made since the caller last
             \* assigned rules or groups began with one that returned v
    other,   \* a second goroutine that is not running now: its receiver,
             \* argument, position, return value and locals
    api,     \* the call of a MoodleApi getter in progress
    pw,      \* the call of RandomPassword in progress
    job      \* the call in progress of a method that changes the server's data
             \* or merges two of its answers: function, position, arguments,
             \* locals, the requests issued so far and the outcome

locals == <<ci, gi, found>>

\* The variables of the other parts of the library, which no statement of
\* the restriction evaluator or of its callers reads or writes.
outside == <<api, pw, job>>

\* No getter and no password generation is in progress.
OutsideIdle == api = NoCall /\ pw = NoPassword /\ job = NoJob

vars == <<rules, groups, pc, ret, ci, gi, found, first, other, outside>>

\* The caller is between two of its statements (no call is running).
AtCaller == pc \in {"caller", "returned"}

\* A goroutine that has made no call.
IdleGoroutine ==
    [rules |-> NewRestrictionValue, groups |-> <<>>, pc |-> "caller",
     ret |-> FALSE, ci |-> 0, gi |-> 0, found |-> FALSE]

(* ---------------------------- IsRestricted ----------------------------- *)

\* The inner loop of the "&" and "!&" cases:
\*     found := false
\*     for _, g := range groups { if r.Id == g.Id { found = true } }
RECURSIVE FoundFrom(_, _, _, _)
FoundFrom(c, gs, j, flag) ==
    IF j > Len(gs) THEN flag
    ELSE FoundFrom(c, gs, j + 1, IF c.Id = gs[j].Id THEN TRUE ELSE flag)

\* The inner loop written as `found = (r.Id == g.Id)`: the last group of
\* the list decides.
FoundLastWins(c, gs) == Len(gs) > 0 /\ c.Id = gs[Len(gs)].Id

Found(c, gs) == FoundFrom(c, gs, 1, FALSE)

\* The inner loop of the "|" and "!|" cases, which returns from the function
\* at the first group whose Id equals the condition's: TRUE iff it returns.
RECURSIVE HitFrom(_, _, _)
HitFrom(c, gs, j) ==
    IF j > Len(gs) THEN FALSE
    ELSE IF c.Id = gs[j].Id THEN TRUE
    ELSE HitFrom(c, gs, j + 1)

\* The inner loop of "|" and "!|" comparing only the learner's last group.
HitLastOnly(c, gs) == Len(gs) > 0 /\ c.Id = gs[Len(gs)].Id

Hit(c, gs) == HitFrom(c, gs, 1)

\* case "&": for each condition, if !found { return true }; return false
RECURSIVE AndFrom(_, _, _)
AndFrom(C, gs, i) ==
    IF i > Len(C) THEN FALSE
    ELSE IF ~Found(C[i], gs) THEN TRUE
    ELSE AndFrom(C, gs, i + 1)

\* "&" written with the test of "!&": returns true at the first condition found.
AndCaseFoundReturns(C, gs) == \E i \in DOMAIN C : Found(C[i], gs)

AndCase(C, gs) == AndFrom(C, gs, 1)

\* case "!&": for each condition, if found { return true }; return false
RECURSIVE NotAndFrom(_, _, _)
NotAndFrom(C, gs, i) ==
    IF i > Len(C) THEN FALSE
    ELSE IF Found(C[i], gs) THEN TRUE
    ELSE NotAndFrom(C, gs, i + 1)

\* "!&" copied from "&" with the test left as !found.
NotAndCaseNotFlipped(C, gs) == AndFrom(C, gs, 1)

\* "!&" written as: if !found { return false } ... return true
NotAndCaseSuperset(C, gs) == \A i \in DOMAIN C : Found(C[i], gs)

NotAndCase(C, gs) == NotAndFrom(C, gs, 1)

\* case "|": return false at the first matching pair; return true
RECURSIVE OrFrom(_, _, _)
OrFrom(C, gs, i) ==
    IF i > Len(C) THEN TRUE
    ELSE IF Hit(C[i], gs) THEN FALSE
    ELSE OrFrom(C, gs, i + 1)

\* "|" with the final return true placed inside the outer loop: only the
\* first condition is compared.
OrCaseFirstOnly(C, gs) == IF Len(C) = 0 THEN TRUE ELSE ~Hit(C[1], gs)

\* "|" with a guard: if len(r.C) == 0 { return false }
OrCaseEmptyGuard(C, gs) == IF Len(C) = 0 THEN FALSE ELSE OrFrom(C, gs, 1)

OrCase(C, gs) == OrFrom(C, gs, 1)

\* case "!|": return true at the first matching pair; return false
RECURSIVE NotOrFrom(_, _, _)
NotOrFrom(C, gs, i) ==
    IF i > Len(C) THEN FALSE
    ELSE IF Hit(C[i], gs) THEN TRUE
    ELSE NotOrFrom(C, gs, i + 1)

\* "!|" with a break after the first group: only groups[0] is compared.
NotOrCaseFirstGroup(C, gs) ==
    /\ Len(gs) > 0
    /\ \E i \in DOMAIN C : C[i].Id = gs[1].Id

\* "!|" returning true only when every condition matches a group (and
\* there is one).
NotOrCaseEveryHit(C, gs) == Len(C) > 0 /\ \A i \in DOMAIN C : Hit(C[i], gs)

NotOrCase(C, gs) == NotOrFrom(C, gs, 1)

\* default: return true (fail closed)
DefaultFailClosed == TRUE

\* default: return false
DefaultCase == FALSE

\* func (r *Restriction) IsRestricted(groups []CourseGroup) bool
IsRestricted(r, gs) ==
    CASE r.OP = "&"  -> AndCase(r.C, gs)
      [] r.OP = "!&" -> NotAndCase(r.C, gs)
      [] r.OP = "|"  -> OrCase(r.C, gs)
      [] r.OP = "!|" -> NotOrCase(r.C, gs)
      [] OTHER       -> DefaultCase

(* ---------------------------- the caller ------------------------------- *)

Init ==
    /\ rules = NewRestrictionValue
    /\ groups = <<>>
    /\ pc = "caller"
    /\ ret = FALSE
    /\ ci = 0 /\ gi = 0 /\ found = FALSE
    /\ first = <<>>
    /\ other = IdleGoroutine
    /\ OutsideIdle

\* rules = &Restriction{}
NewRestriction ==
    /\ AtCaller
    /\ rules' = NewRestrictionValue
    /\ pc' = "caller" /\ ret' = FALSE /\ first' = <<>>
    /\ UNCHANGED <<groups, locals, other, outside>>

\* rules.OP = op
SetOP ==
    \E op \in Operators :
        /\ AtCaller
        /\ rules' = [rules EXCEPT !.OP = op]
        /\ pc' = "caller" /\ ret' = FALSE /\ first' = <<>>
        /\ UNCHANGED <<groups, locals, other, outside>>

\* rules.C = append(rules.C, c)
AppendC ==
    \E c \in Conditions :
        /\ AtCaller
        /\ Len(rules.C) < MaxConds
        /\ rules' = [rules EXCEPT !.C = Append(@, c)]
        /\ pc' = "caller" /\ ret' = FALSE /\ first' = <<>>
        /\ UNCHANGED <<groups, locals, other, outside>>

\* rules.ShowC = append(rules.ShowC, b)
AppendShowC ==
    \E b \in BOOLEAN :
        /\ AtCaller
        /\ Len(rules.ShowC) < MaxShowC
        /\ rules' = [rules EXCEPT !.ShowC = Append(@, b)]
        /\ pc' = "caller" /\ ret' = FALSE /\ first' = <<>>
        /\ UNCHANGED <<groups, locals, other, outside>>

\* rules.Show = b
SetShow ==
    \E b \in BOOLEAN :
        /\ AtCaller
        /\ rules' = [rules EXCEPT !.Show = b]
        /\ pc' = "caller" /\ ret' = FALSE /\ first' = <<>>
        /\ UNCHANGED <<groups, locals, other, outside>>

\* groups = []CourseGroup{CourseGroup{Id: ...}, ...}
SetGroups ==
    \E gs \in GroupLists :
        /\ AtCaller
        /\ groups' = gs
        /\ pc' = "caller" /\ ret' = FALSE /\ first' = <<>>
        /\ UNCHANGED <<rules, locals, other, outside>>

\* rules.IsRestricted(groups): the whole call, from entry to return.
Call ==
    /\ AtCaller
    /\ ret' = IsRestricted(rules, groups)
    /\ pc' = "returned"
    /\ UNCHANGED <<rules, groups, locals, first, other, outside>>

Next ==
    \/ NewRestriction
    \/ SetOP
    \/ AppendC
    \/ AppendShowC
    \/ SetShow
    \/ SetGroups
    \/ Call

Spec == Init /\ [][Next]_vars

(* ------------------- IsRestricted, statement by statement -------------- *)

\* The rules and group lists a call may be given: every operator string,
\* every conditions list of at most MaxConds conditions, Show and ShowC of
\* every value and length (ShowC need not be as long as C).
CondLists == UNION {[1..n -> Conditions] : n \in 0..MaxConds}
ShowCLists == UNION {[1..n -> BOOLEAN] : n \in 0..MaxShowC}
Rules == [OP : Operators, C : CondLists, Show : BOOLEAN, ShowC : ShowCLists]

\* Entry of rules.IsRestricted(groups) with the receiver and the argument
\* bound.  The receiver is never nil: callers hold &Restriction{} or the
\* address of the CourseModule.Availability field.
StepInit ==
    /\ rules \in Rules
    /\ groups \in GroupLists
    /\ pc = "switch"
    /\ ret = FALSE
    /\ ci = 0 /\ gi = 0 /\ found = FALSE
    /\ first = <<>>
    /\ other = IdleGoroutine
    /\ OutsideIdle

\* The bounds check the runtime makes when s[k] is read (k counted from 1).
InRange(s, k) == k \in DOMAIN s

\* The switch with a default branch that also clears the operator it did
\* not recognise: default: r.OP = ""; return false
SwitchClearsUnknownOP ==
    /\ pc = "switch"
    /\ ci' = 0
    /\ IF rules.OP \in KnownOperators
       THEN /\ pc' = CASE rules.OP = "&"  -> "and_range"
                       [] rules.OP = "!&" -> "notand_range"
                       [] rules.OP = "|"  -> "or_range"
                       [] rules.OP = "!|" -> "notor_range"
            /\ UNCHANGED <<ret, rules>>
       ELSE /\ pc' = "returned"
            /\ ret' = FALSE
            /\ rules' = [rules EXCEPT !.OP = ""]
    /\ UNCHANGED <<first, other, outside>>
    /\ UNCHANGED <<groups, gi, found>>

\* switch r.OP { case "&": ... case "!&": ... case "|": ... case "!|": ...
\* default: return false }
Switch ==
    /\ pc = "switch"
    /\ ci' = 0
    /\ IF rules.OP \in KnownOperators
       THEN /\ pc' = CASE rules.OP = "&"  -> "and_range"
                       [] rules.OP = "!&" -> "notand_range"
                       [] rules.OP = "|"  -> "or_range"
                       [] rules.OP = "!|" -> "notor_range"
            /\ UNCHANGED ret
       ELSE /\ pc' = "returned"
            /\ ret' = FALSE
    /\ UNCHANGED <<first, other, outside>>
    /\ UNCHANGED <<rules, groups, gi, found>>

\* The outer range of "&" and "!&" made to honour per-condition visibility by
\* reading r.ShowC[i] next to the condition it takes: the read is out of range
\* when ShowC is shorter than C.
RangeCFoundReadsShowC(head, body, final) ==
    /\ pc = head
    /\ IF ci < Len(rules.C)
       THEN IF InRange(rules.ShowC, ci + 1)
            THEN /\ ci' = ci + 1
                 /\ found' = FALSE
                 /\ gi' = 0
                 /\ pc' = body
                 /\ UNCHANGED ret
            ELSE /\ pc' = "panic"
                 /\ UNCHANGED <<ret, ci, gi, found>>
       ELSE /\ pc' = "returned"
            /\ ret' = final
            /\ UNCHANGED <<ci, gi, found>>
    /\ UNCHANGED <<first, other, outside>>
    /\ UNCHANGED <<rules, groups>>

\* The outer range of "&" and "!&" with found kept in a variable that
\* outlives the loop body and the call (declared once, never reset).
RangeCFoundKeepsFound(head, body, final) ==
    /\ pc = head
    /\ IF ci < Len(rules.C)
       THEN /\ ci' = ci + 1
            /\ gi' = 0
            /\ pc' = body
            /\ UNCHANGED <<ret, found>>
       ELSE /\ pc' = "returned"
            /\ ret' = final
            /\ UNCHANGED <<ci, gi, found>>
    /\ UNCHANGED <<first, other, outside>>
    /\ UNCHANGED <<rules, groups>>

\* for _, r := range r.C { found := false ...   of "&" and "!&", followed
\* after the loop by `return final`.
RangeCFound(head, body, final) ==
    /\ pc = head
    /\ IF ci < Len(rules.C)
       THEN /\ ci' = ci + 1
            /\ found' = FALSE
            /\ gi' = 0
            /\ pc' = body
            /\ UNCHANGED ret
       ELSE /\ pc' = "returned"
            /\ ret' = final
            /\ UNCHANGED <<ci, gi, found>>
    /\ UNCHANGED <<first, other, outside>>
    /\ UNCHANGED <<rules, groups>>

\* for _, g := range groups { if r.Id == g.Id { found = true } }
RangeGroupsFound(body, test) ==
    /\ pc = body
    /\ IF gi < Len(groups)
       THEN IF InRange(rules.C, ci) /\ InRange(groups, gi + 1)
            THEN /\ gi' = gi + 1
                 /\ found' = IF rules.C[ci].Id = groups[gi + 1].Id THEN TRUE ELSE found
                 /\ pc' = body
            ELSE /\ pc' = "panic"
                 /\ UNCHANGED <<gi, found>>
       ELSE /\ pc' = test
            /\ UNCHANGED <<gi, found>>
    /\ UNCHANGED <<first, other, outside>>
    /\ UNCHANGED <<rules, groups, ret, ci>>

\* if found { return true }   (when = TRUE)
\* if !found { return true }  (when = FALSE)
IfFound(test, head, when) ==
    /\ pc = test
    /\ IF found = when
       THEN pc' = "returned" /\ ret' = TRUE
       ELSE pc' = head /\ UNCHANGED ret
    /\ UNCHANGED <<first, other, outside>>
    /\ UNCHANGED <<rules, groups, ci, gi, found>>

\* The outer range of "|" and "!|" made to pass over the conditions the
\* rule hides: a condition whose ShowC entry exists and is false is skipped.
RangeCSkipsHidden(head, body, final) ==
    /\ pc = head
    /\ IF ci < Len(rules.C)
       THEN /\ ci' = ci + 1
            /\ gi' = 0
            /\ pc' = IF InRange(rules.ShowC, ci + 1) /\ ~rules.ShowC[ci + 1]
                     THEN head ELSE body
            /\ UNCHANGED ret
       ELSE /\ pc' = "returned"
            /\ ret' = final
            /\ UNCHANGED <<ci, gi>>
    /\ UNCHANGED <<first, other, outside>>
    /\ UNCHANGED <<rules, groups, found>>

\* for _, r := range r.C {   of "|" and "!|", followed after the loop by
\* `return final`.
RangeC(head, body, final) ==
    /\ pc = head
    /\ IF ci < Len(rules.C)
       THEN /\ ci' = ci + 1
            /\ gi' = 0
            /\ pc' = body
            /\ UNCHANGED ret
       ELSE /\ pc' = "returned"
            /\ ret' = final
            /\ UNCHANGED <<ci, gi>>
    /\ UNCHANGED <<first, other, outside>>
    /\ UNCHANGED <<rules, groups, found>>

\* for _, g := range groups { if r.Id == g.Id { return value } }
RangeGroupsReturn(body, head, value) ==
    /\ pc = body
    /\ IF gi < Len(groups)
       THEN IF InRange(rules.C, ci) /\ InRange(groups, gi + 1)
            THEN /\ gi' = gi + 1
                 /\ IF rules.C[ci].Id = groups[gi + 1].Id
                    THEN pc' = "returned" /\ ret' = value
                    ELSE pc' = body /\ UNCHANGED ret
            ELSE /\ pc' = "panic"
                 /\ UNCHANGED <<gi, ret>>
       ELSE /\ pc' = head
            /\ UNCHANGED <<gi, ret>>
    /\ UNCHANGED <<first, other, outside>>
    /\ UNCHANGED <<rules, groups, ci, found>>

\* case "&"
AndRange == RangeCFound("and_range", "and_groups", FALSE)
AndGroups == RangeGroupsFound("and_groups", "and_if")
AndIf == IfFound("and_if", "and_range", FALSE)

\* case "!&"
NotAndRange == RangeCFound("notand_range", "notand_groups", FALSE)
NotAndGroups == RangeGroupsFound("notand_groups", "notand_if")
NotAndIf == IfFound("notand_if", "notand_range", TRUE)

\* case "|"
OrRange == RangeC("or_range", "or_groups", TRUE)
OrGroups == RangeGroupsReturn("or_groups", "or_range", FALSE)

\* case "!|"
NotOrRange == RangeC("notor_range", "notor_groups", FALSE)
NotOrGroups == RangeGroupsReturn("notor_groups", "notor_range", TRUE)

StepNext ==
    \/ Switch
    \/ AndRange \/ AndGroups \/ AndIf
    \/ NotAndRange \/ NotAndGroups \/ NotAndIf
    \/ OrRange \/ OrGroups
    \/ NotOrRange \/ NotOrGroups

\* The goroutine that runs the call keeps being scheduled: a statement that
\* can run does run.
StepSpec == StepInit /\ [][StepNext]_vars /\ WF_vars(StepNext)

(* ------------------- calls made one after another ---------------------- *)

\* The caller enters rules.IsRestricted(groups).  The frame of the new call
\* starts with whatever the previous call left behind: the call's own
\* statements are what initialises ci, gi and found.  When the call follows
\* a return with no assignment in between, the returned verdict is recorded.
Enter ==
    /\ AtCaller
    /\ pc' = "switch"
    /\ first' = IF pc = "returned" /\ first = <<>> THEN <<ret>> ELSE first
    /\ UNCHANGED <<rules, groups, ret, locals, other, outside>>

\* TestRestriction: build a rule, assign groups, call twice, assign other
\* groups, call twice, build the next rule, ...
RepeatNext ==
    \/ NewRestriction
    \/ SetOP
    \/ AppendC
    \/ SetGroups
    \/ Enter
    \/ Switch
    \/ AndRange \/ AndGroups \/ AndIf
    \/ NotAndRange \/ NotAndGroups \/ NotAndIf
    \/ OrRange \/ OrGroups
    \/ NotOrRange \/ NotOrGroups

RepeatSpec == Init /\ [][RepeatNext]_vars

(* ------------------- calls made concurrently --------------------------- *)

\* The frame of the goroutine that is running now.
Running ==
    [rules |-> rules, groups |-> groups, pc |-> pc,
     ret |-> ret, ci |-> ci, gi |-> gi, found |-> found]

\* The group lists of the learners whose calls run concurrently.
ConcGroupLists == UNION {[1..n -> LearnerGroups] : n \in 0..MaxConcGroups}

\* The rules two goroutines evaluate at once: every operator string and every
\* list of at most MaxConds group conditions.
ConcRules ==
    [OP : Operators,
     C : UNION {[1..n -> GroupConditions] : n \in 0..MaxConds},
     Show : {FALSE}, ShowC : {<<>>}]

\* Two goroutines have each entered IsRestricted on the same rule, which
\* nobody assigns to while the calls run, each with the group list of its
\* own learner (the lists may be equal).
ConcInit ==
    /\ rules \in ConcRules
    /\ groups \in ConcGroupLists
    /\ pc = "switch"
    /\ ret = FALSE
    /\ ci = 0 /\ gi = 0 /\ found = FALSE
    /\ first = <<>>
    /\ \E gs \in ConcGroupLists :
           other = [IdleGoroutine EXCEPT !.rules = rules, !.groups = gs,
                                         !.pc = "switch"]
    /\ OutsideIdle

\* The scheduler with found declared at package level (var found bool) in
\* place of `found := false` in the loop body: one variable for all
\* goroutines, which a switch of goroutines does not exchange.
YieldSharedFound ==
    /\ other' = Running
    /\ rules' = other.rules
    /\ groups' = other.groups
    /\ pc' = other.pc
    /\ ret' = other.ret
    /\ ci' = other.ci
    /\ gi' = other.gi
    /\ found' = found
    /\ UNCHANGED <<first, outside>>

\* The scheduler suspends the running goroutine between two statements and
\* resumes the other one: receiver, argument, position, return value and
\* the locals ci, gi, found all live in the goroutine's own frame.
Yield ==
    /\ other' = Running
    /\ rules' = other.rules
    /\ groups' = other.groups
    /\ pc' = other.pc
    /\ ret' = other.ret
    /\ ci' = other.ci
    /\ gi' = other.gi
    /\ found' = other.found
    /\ UNCHANGED <<first, outside>>

ConcNext ==
    \/ Yield
    \/ Switch
    \/ AndRange \/ AndGroups \/ AndIf
    \/ NotAndRange \/ NotAndGroups \/ NotAndIf
    \/ OrRange \/ OrGroups
    \/ NotOrRange \/ NotOrGroups

ConcSpec == ConcInit /\ [][ConcNext]_vars

(* ---------------------------- the getters, step by step --------------- *)

\* The variables of the restriction evaluator and of its caller, which no
\* getter reads or writes.
evaluator == <<rules, groups, pc, ret, ci, gi, found, first, other>>

\* A goroutine calls one of the getters.
ApiCall ==
    \E fn \in Getters :
        /\ api.pc \in {"idle", "done"}
        /\ api' = [NoCall EXCEPT !.fn = fn, !.pc = "fetch"]
        /\ UNCHANGED <<evaluator, pw, job>>

\* body, _, _, err := m.fetch.GetUrl(url)
\* if err != nil { return nil, err }
Fetch ==
    /\ api.pc = "fetch"
    /\ \/ \E e \in FetchErrors :
              api' = [api EXCEPT !.fetchErr = e, !.trace = Append(@, "fetch"),
                                 !.ret = Nil, !.err = e, !.pc = "done"]
       \/ \E body \in Bodies(api.fn) :
              api' = [api EXCEPT !.body = body, !.trace = Append(@, "fetch"),
                                 !.pc = "check"]
    /\ UNCHANGED <<evaluator, pw, job>>

\* The check left out: the body goes to json.Unmarshal whatever its prefix.
CheckExceptionSkipped ==
    /\ api.pc = "check"
    /\ api' = [api EXCEPT !.trace = Append(@, "check"), !.pc = "unmarshal"]
    /\ UNCHANGED <<evaluator, pw, job>>

\* if strings.HasPrefix(body, "{\"exception\":\"") {
\*     return nil, errors.New(body)                      GetCourseModule
\*     return nil, errors.New(readError(body))           GetPersonByUsername, ByMoodleId
\*     return nil, errors.New(readError(body) + ". " + url)   the others
\* }
CheckException ==
    /\ api.pc = "check"
    /\ IF api.body.envelope
       THEN api' = [api EXCEPT
                       !.trace = Append(@, "check"), !.ret = Nil, !.pc = "done",
                       !.err = CASE api.fn = "GetCourseModule" ->
                                       NewError("{\"exception\":\"")
                                 [] api.fn \in {"GetPersonByUsername", "GetPersonByMoodleId"} ->
                                       NewError(readError(api.body))
                                 [] OTHER ->
                                       NewError(readError(api.body) \o ". url")]
       ELSE api' = [api EXCEPT !.trace = Append(@, "check"), !.pc = "unmarshal"]
    /\ UNCHANGED <<evaluator, pw, job>>

\* if err := json.Unmarshal([]byte(body), &result); err != nil {
\*     return nil, errors.New("Server returned unexpected response. " + err.Error())
\* }
UnmarshalBody ==
    /\ api.pc = "unmarshal"
    /\ LET decoded == Unmarshal(api.fn, api.body)
       IN  IF decoded.err
           THEN api' = [api EXCEPT
                           !.trace = Append(@, "unmarshal"), !.ret = Nil, !.pc = "done",
                           !.err = NewError("Server returned unexpected response. ")]
           ELSE api' = [api EXCEPT
                           !.trace = Append(@, "unmarshal"), !.result = decoded.v,
                           !.pc = "project"]
    /\ UNCHANGED <<evaluator, pw, job>>

\* GetCourseModule: cm := &CourseModule{Id: result.CM.Id, ...,
\*     Visible: result.CM.Visible == 1, ...}, then the test
\*     if result.CM.Availability != "" { ... } and, when it fails, return cm, nil
\* GetCourseGroups: return results[:], nil
\* GetPersonBy...: the choice among the accounts listed.
Project ==
    /\ api.pc = "project"
    /\ CASE api.fn = "GetCourseModule" ->
               LET cm == CourseModule(api.result.CM.Id, api.result.CM.Visible = 1,
                                      NewRestrictionValue)
               IN  IF api.result.CM.Availability.k # "empty"
                   THEN api' = [api EXCEPT !.trace = Append(@, "project"),
                                           !.cm = cm, !.pc = "availability"]
                   ELSE api' = [api EXCEPT !.trace = Append(@, "project"),
                                           !.cm = cm, !.ret = ReturnModule(cm),
                                           !.err = NilError, !.pc = "done"]
         [] api.fn = "GetCourseGroups" ->
               api' = [api EXCEPT !.trace = Append(@, "project"),
                                  !.ret = ReturnGroups(api.result.groups),
                                  !.err = NilError, !.pc = "done"]
         [] api.fn = "GetPersonByEmail" ->
               LET chosen == PersonByEmail(api.result.users)
               IN  api' = [api EXCEPT !.trace = Append(@, "project"),
                                      !.ret = chosen.ret, !.err = chosen.err,
                                      !.pc = "done"]
         [] OTHER ->
               LET chosen == PersonByField(api.result.users)
               IN  api' = [api EXCEPT !.trace = Append(@, "project"),
                                      !.ret = chosen.ret, !.err = chosen.err,
                                      !.pc = "done"]
    /\ UNCHANGED <<evaluator, pw, job>>

\* if err := json.Unmarshal([]byte(result.CM.Availability), &cm.Availability); err != nil {
\*     return nil, errors.New("Server returned unexpected response. " + err.Error())
\* }
\* return cm, nil
UnmarshalAvailability ==
    /\ api.pc = "availability"
    /\ LET decoded == UnmarshalRestriction(api.result.CM.Availability, api.cm.Availability)
       IN  IF decoded.err
           THEN api' = [api EXCEPT
                           !.trace = Append(@, "availability"), !.ret = Nil, !.pc = "done",
                           !.err = NewError("Server returned unexpected response. ")]
           ELSE api' = [api EXCEPT
                           !.trace = Append(@, "availability"),
                           !.cm = [@ EXCEPT !.Availability = decoded.v],
                           !.ret = ReturnModule([api.cm EXCEPT !.Availability = decoded.v]),
                           !.err = NilError, !.pc = "done"]
    /\ UNCHANGED <<evaluator, pw, job>>

ApiNext ==
    \/ ApiCall
    \/ Fetch
    \/ CheckException
    \/ UnmarshalBody
    \/ Project
    \/ UnmarshalAvailability

ApiSpec == Init /\ [][ApiNext]_vars

(* ---------------------------- RandomPassword -------------------------- *)

\* The conditions of the three ifs at the head of the loop body.
UppercaseDue == size > 2 /\ pw.i = size - 1 /\ pw.hasUppercase = FALSE
LowercaseDue == size > 3 /\ pw.i = size - 2 /\ pw.hasLowercase = FALSE
NumberDue == size > 4 /\ pw.i = size - 3 /\ pw.hasNumber = FALSE

\* bytes[i] = c
SetByte(bytes, i, c) == [bytes EXCEPT ![i + 1] = c]

\* size := 10; bytes := make([]byte, size); hasNumber := false; ...;
\* var last byte = 0; for i := 0; ...
PwCall ==
    /\ pw.pc \in {"idle", "done"}
    /\ pw' = [NoPassword EXCEPT !.pc = "loop", !.bytes = [n \in 1..size |-> 0]]
    /\ UNCHANGED <<evaluator, api, job>>

\* The first if with the letter 'O' replaced by the digit '0'.
ForceUppercaseZero ==
    /\ pw.pc = "loop" /\ pw.i < size
    /\ UppercaseDue
    /\ \E n \in Int31n(25) :
           LET c == Uint8(Ord("B") + n)
           IN  pw' = [pw EXCEPT
                         !.bytes = SetByte(@, pw.i, IF c = Ord("O") THEN Ord("0") ELSE c),
                         !.i = @ + 1]
    /\ UNCHANGED <<evaluator, api, job>>

\* if size > 2 && i == size-1 && hasUppercase == false {
\*     c := 'B' + uint8(random.Int31n(25)); if c == 'O' { c = 'A' }
\*     bytes[i] = c; continue }
ForceUppercase ==
    /\ pw.pc = "loop" /\ pw.i < size
    /\ UppercaseDue
    /\ \E n \in Int31n(25) :
           LET c == Uint8(Ord("B") + n)
           IN  pw' = [pw EXCEPT
                         !.bytes = SetByte(@, pw.i, IF c = Ord("O") THEN Ord("A") ELSE c),
                         !.i = @ + 1]
    /\ UNCHANGED <<evaluator, api, job>>

\* if size > 3 && i == size-2 && hasLowercase == false {
\*     c := 'b' + uint8(random.Int31n(25)); if c == 'l' { c = 'a' }
\*     bytes[i] = c; continue }
ForceLowercase ==
    /\ pw.pc = "loop" /\ pw.i < size
    /\ ~UppercaseDue /\ LowercaseDue
    /\ \E n \in Int31n(25) :
           LET c == Uint8(Ord("b") + n)
           IN  pw' = [pw EXCEPT
                         !.bytes = SetByte(@, pw.i, IF c = Ord("l") THEN Ord("a") ELSE c),
                         !.i = @ + 1]
    /\ UNCHANGED <<evaluator, api, job>>

\* if size > 4 && i == size-3 && hasNumber == false {
\*     c := '2' + uint8(random.Int31n(8)); bytes[i] = c; continue }
ForceNumber ==
    /\ pw.pc = "loop" /\ pw.i < size
    /\ ~UppercaseDue /\ ~LowercaseDue /\ NumberDue
    /\ \E n \in Int31n(8) :
           pw' = [pw EXCEPT !.bytes = SetByte(@, pw.i, Uint8(Ord("2") + n)),
                            !.i = @ + 1]
    /\ UNCHANGED <<evaluator, api, job>>

\* x := random.Intn(len(rst)); c := rst[x]
\* if c == last || c == last+1 { i = i - 1; continue }
\* if c <= '9' { hasNumber = true } else if c <= 'Z' { hasUppercase = true }
\* else { hasLowercase = true }
\* bytes[i] = c; last = c
\* A rejected character leaves every local as it was: i = i - 1 is undone
\* by the i++ of the loop.
Draw ==
    /\ pw.pc = "loop" /\ pw.i < size
    /\ ~UppercaseDue /\ ~LowercaseDue /\ ~NumberDue
    /\ \E x \in Draws :
           LET c == rst[x + 1]
           IN  IF c = pw.last \/ c = Uint8(pw.last + 1)
               THEN pw' = pw
               ELSE pw' = [pw EXCEPT
                              !.hasNumber = IF c <= Ord("9") THEN TRUE ELSE @,
                              !.hasUppercase =
                                  IF c > Ord("9") /\ c <= Ord("Z") THEN TRUE ELSE @,
                              !.hasLowercase = IF c > Ord("Z") THEN TRUE ELSE @,
                              !.bytes = SetByte(@, pw.i, c),
                              !.last = c, !.i = @ + 1]
    /\ UNCHANGED <<evaluator, api, job>>

\* s := string(bytes); return s[0:5] + "-" + s[5:]
PwReturn ==
    /\ pw.pc = "loop" /\ ~(pw.i < size)
    /\ pw' = [pw EXCEPT
                 !.ret = SubSeq(pw.bytes, 1, 5) \o <<Ord("-")>>
                         \o SubSeq(pw.bytes, 6, Len(pw.bytes)),
                 !.pc = "done"]
    /\ UNCHANGED <<evaluator, api, job>>

PwNext ==
    \/ PwCall
    \/ ForceUppercase
    \/ ForceLowercase
    \/ ForceNumber
    \/ Draw
    \/ PwReturn

PwSpec == Init /\ [][PwNext]_vars

(* ---------------------------- query strings -------------------------- *)

\* A string is a sequence of pieces: a piece is a character, or a run of
\* characters that is followed as a unit (a parameter name, a number).
\* The pieces a caller's strings are made of: a letter, the two characters
\* a query string is cut at, and the name of the password parameter.
Pieces == {"x", "&", "=", "users[0][password]"}
Texts(n) == UNION {[1..k -> Pieces] : k \in 0..n}

\* url.QueryEscape of a piece: letters are kept, every other character is
\* written as % and its byte in hexadecimal.
EscapePiece(piece) ==
    CASE piece = "&" -> "%26"
      [] piece = "=" -> "%3D"
      [] piece = "@" -> "%40"
      [] piece = "users[0][password]" -> "users%5B0%5D%5Bpassword%5D"
      [] OTHER -> piece
QueryEscape(text) == [k \in DOMAIN text |-> EscapePiece(text[k])]

\* What the server makes of an escaped piece when it reads a value.
UnescapePiece(piece) ==
    CASE piece = "%26" -> "&"
      [] piece = "%3D" -> "="
      [] piece = "%40" -> "@"
      [] piece = "users%5B0%5D%5Bpassword%5D" -> "users[0][password]"
      [] OTHER -> piece
QueryUnescape(text) == [k \in DOMAIN text |-> UnescapePiece(text[k])]

\* fmt.Sprintf("%d", id) for the ids followed.
Itoa(id) ==
    CASE id = 0 -> "0"
      [] id = 1 -> "1"
      [] id = 2 -> "2"
      [] id = 5 -> "5"
      [] id = 7 -> "7"
      [] id = 31 -> "31"

\* The query string the server receives, cut at every "&" into parameters
\* and each parameter at its first "=" into a name and a value.
RECURSIVE CutAt(_, _)
CutAt(text, sep) ==
    IF \A k \in DOMAIN text : text[k] # sep THEN <<text>>
    ELSE LET k == CHOOSE n \in DOMAIN text :
                      text[n] = sep /\ \A m \in 1..(n - 1) : text[m] # sep
         IN  <<SubSeq(text, 1, k - 1)>> \o CutAt(SubSeq(text, k + 1, Len(text)), sep)
Parameter(text) ==
    IF \A k \in DOMAIN text : text[k] # "=" THEN [name |-> text, value |-> <<>>]
    ELSE LET k == CHOOSE n \in DOMAIN text :
                      text[n] = "=" /\ \A m \in 1..(n - 1) : text[m] # "="
         IN  [name |-> SubSeq(text, 1, k - 1),
              value |-> QueryUnescape(SubSeq(text, k + 1, Len(text)))]
Parameters(query) ==
    LET cut == CutAt(query, "&")
    IN  {Parameter(cut[k]) : k \in DOMAIN cut}

\* The values a request carries under a name.
Values(query, name) ==
    {q.value : q \in {r \in Parameters(query) : r.name = <<name>>}}

\* The part every request url has after the "?":
\* wstoken=%s&wsfunction=%s&moodlewsrestformat=json
Query(wsfunction) ==
    <<"wstoken", "=", "token", "&", "wsfunction", "=", wsfunction, "&",
      "moodlewsrestformat", "=", "json">>

(* ---------------------------- UpdateUser ------------------------------ *)

\* No call has been made in job.
JobIdle == job.pc = "idle"

\* What m.fetch.GetUrl answers to a request that changes data: an error, a
\* body that starts with {"exception":", the body null, or another body.
Replies ==
    {[err |-> e, body |-> Body(FALSE, "none", NoCM, <<>>, <<>>)] : e \in FetchErrors}
    \cup {[err |-> NilError, body |-> b] : b \in ExceptionBodies}
    \cup {[err |-> NilError, body |-> Body(FALSE, "null", NoCM, <<>>, <<>>)],
          [err |-> NilError, body |-> Body(FALSE, "malformed", NoCM, <<>>, <<>>)]}

\* The email addresses a caller passes: one without "@" and one with.
Emails == {<<"x">>, <<"x", "@", "x">>}

\* strings.Index(email, "@") < 0
NoAt(email) == \A k \in DOMAIN email : email[k] # "@"

\* The url of UpdateUser with the username put in as the caller gave it.
UpdateUserUrlRaw(id, firstName, lastName, email, username, password) ==
    Query("core_user_update_users")
    \o <<"&", "users[0][id]", "=", Itoa(id)>>
    \o <<"&", "users[0][firstname]", "=">> \o QueryEscape(firstName)
    \o <<"&", "users[0][lastname]", "=">> \o QueryEscape(lastName)
    \o <<"&", "users[0][email]", "=">> \o QueryEscape(email)
    \o <<"&", "users[0][username]", "=">> \o username
    \o IF password # <<>>
       THEN <<"&", "users[0][password]", "=">> \o QueryEscape(password)
       ELSE <<>>

\* l = fmt.Sprintf("...&users[0][id]=%d&users[0][firstname]=%s&users[0][lastname]=%s
\*     &users[0][email]=%s&users[0][username]=%s", ..., id, url.QueryEscape(firstName), ...)
\* if password != "" { l = l + "&users[0][password]=" + url.QueryEscape(password) }
UpdateUserUrl(id, firstName, lastName, email, username, password) ==
    Query("core_user_update_users")
    \o <<"&", "users[0][id]", "=", Itoa(id)>>
    \o <<"&", "users[0][firstname]", "=">> \o QueryEscape(firstName)
    \o <<"&", "users[0][lastname]", "=">> \o QueryEscape(lastName)
    \o <<"&", "users[0][email]", "=">> \o QueryEscape(email)
    \o <<"&", "users[0][username]", "=">> \o QueryEscape(username)
    \o IF password # <<>>
       THEN <<"&", "users[0][password]", "=">> \o QueryEscape(password)
       ELSE <<>>

\* api.UpdateUser(id, "Mont", "ebo", "test@montebo.com", "test001", "")
UpdateUserCall ==
    /\ JobIdle
    /\ \E email \in Emails, username \in Texts(MaxText), password \in Texts(MaxPassword) :
           job' = [fn |-> "UpdateUser", pc |-> "request", id |-> 7,
                   firstName |-> <<"x">>, lastName |-> <<"x", "x">>,
                   email |-> email, username |-> username, password |-> password,
                   requests |-> <<>>, err |-> NilError]
    /\ UNCHANGED <<evaluator, api, pw>>

\* The body of UpdateUser: the test of the email, the url, the fetch and
\* the test of its answer.
UpdateUserRequest ==
    /\ job.fn = "UpdateUser" /\ job.pc = "request"
    /\ IF NoAt(job.email)
       THEN job' = [job EXCEPT !.err = NewError("Invalid email address"), !.pc = "done"]
       ELSE \E reply \in Replies :
                LET l == UpdateUserUrl(job.id, job.firstName, job.lastName,
                                       job.email, job.username, job.password)
                IN  job' = [job EXCEPT
                               !.requests = Append(@, l), !.pc = "done",
                               !.err = IF ~reply.err.nil THEN reply.err
                                       ELSE IF reply.body.envelope
                                       THEN NewError(readError(reply.body) \o ". url")
                                       ELSE NilError]
    /\ UNCHANGED <<evaluator, api, pw>>

(* ---------------------------- SetProfilePicture ----------------------- *)

\* What the server answers to core_files_upload: a fetch error, an
\* exception body, or a body that may mention "itemid": after its first
\* character (mentions), may be a JSON object (k) and may have the member
\* itemid at its top level.
UploadReplies ==
    {[err |-> e, envelope |-> FALSE, mentions |-> FALSE, k |-> "none", itemid |-> JAbsent] :
        e \in FetchErrors}
    \cup [err : {NilError}, envelope : {TRUE}, mentions : {FALSE},
          k : {"object"}, itemid : {JAbsent}]
    \cup [err : {NilError}, envelope : {FALSE}, mentions : {FALSE},
          k : {"object", "malformed"}, itemid : {JAbsent}]
    \cup [err : {NilError}, envelope : {FALSE}, mentions : {TRUE},
          k : {"object", "array", "malformed"},
          itemid : {JAbsent, JNumber(31), JString("31")}]

\* json.Unmarshal([]byte(body), &u) for UploadResponse{ItemId `json:"itemid"`}
UnmarshalUpload(reply) ==
    IF reply.k = "object"
    THEN Int64Field(reply.itemid)
    ELSE [err |-> TRUE, v |-> 0]

\* The url of the upload: filecontent is the base64 text of the picture,
\* escaped; base64 text may end with "=".
UploadUrl(userMoodleId, img) ==
    Query("core_files_upload")
    \o <<"&", "filearea", "=", "draft", "&", "instanceid", "=", Itoa(userMoodleId),
         "&", "component", "=", "user", "&", "filecontent", "=">>
    \o QueryEscape(img)
    \o <<"&", "itemid", "=", Itoa(userMoodleId)>>

\* url = fmt.Sprintf("...&draftitemid=%d&userid=%d", ..., draftFileId, userMoodleId)
PictureUrl(draftFileId, userMoodleId) ==
    Query("core_user_update_picture")
    \o <<"&", "draftitemid", "=", Itoa(draftFileId), "&", "userid", "=", Itoa(userMoodleId)>>

\* api.SetProfilePicture(userMoodleId, r)
PictureCall ==
    /\ JobIdle
    /\ job' = [fn |-> "SetProfilePicture", pc |-> "upload", userMoodleId |-> 7,
               requests |-> <<>>, draftFileId |-> 0, err |-> NilError]
    /\ UNCHANGED <<evaluator, api, pw>>

\* data, err := ioutil.ReadAll(r); 1. Upload a draft file: the url, the
\* fetch, the exception test, the search for "itemid": and the decoding.
PictureUpload ==
    /\ job.fn = "SetProfilePicture" /\ job.pc = "upload"
    /\ \/ job' = [job EXCEPT !.err = NewError("unexpected EOF"), !.pc = "done"]
       \/ \E reply \in UploadReplies :
              LET l == UploadUrl(job.userMoodleId, <<"x", "=">>)
                  u == UnmarshalUpload(reply)
                  sent == [job EXCEPT !.requests = Append(@, l)]
              IN  IF ~reply.err.nil
                  THEN job' = [sent EXCEPT !.err = reply.err, !.pc = "done"]
                  ELSE IF reply.envelope
                  THEN job' = [sent EXCEPT !.pc = "done",
                                           !.err = NewError("Invalid token" \o ". url")]
                  ELSE IF reply.mentions
                  THEN IF u.err
                       THEN job' = [sent EXCEPT
                                       !.pc = "done",
                                       !.err = NewError("Server returned unexpected response. ")]
                       ELSE job' = [sent EXCEPT !.draftFileId = u.v, !.pc = "update"]
                  ELSE job' = [sent EXCEPT
                                  !.pc = "done",
                                  !.err = NewError("Server returned unexpected response: ")]
    /\ UNCHANGED <<evaluator, api, pw>>

\* 2. Update the profile picture: the url, the fetch, the exception test
\* and the test for the body null; then return nil.  (3. Remove the draft
\* file is inside a comment.)
PictureUpdate ==
    /\ job.fn = "SetProfilePicture" /\ job.pc = "update"
    /\ \E reply \in Replies :
           job' = [job EXCEPT
                      !.requests = Append(@, PictureUrl(job.draftFileId, job.userMoodleId)),
                      !.pc = "done",
                      !.err = IF ~reply.err.nil THEN reply.err
                              ELSE IF reply.body.envelope
                              THEN NewError(readError(reply.body) \o ". url")
                              ELSE IF reply.body.k # "null"
                              THEN NewError("Server returned unexpected response: ")
                              ELSE NilError]
    /\ UNCHANGED <<evaluator, api, pw>>

(* ---------------------------- GetAssignmentSubmissions ---------------- *)

\* The users of the submissions and of the flags.
UserIds == {1, 2}

\* A *time.Time: nil, or time.Unix(sec, 0).
NilTime == [nil |-> TRUE, unix |-> 0]
Unix(sec) == [nil |-> FALSE, unix |-> sec]

\* The sequences of at most n elements of S.
SeqUpTo(S, n) == UNION {[1..m -> S] : m \in 0..n}

\* What the server answers to mod_assign_get_submissions: a fetch error,
\* an exception body, a body that is not JSON, the body null, or an object
\* whose assignments hold the submissions subs, in order.
SubmissionReplies ==
    {[err |-> e, envelope |-> FALSE, k |-> "none", subs |-> <<>>] : e \in FetchErrors}
    \cup {[err |-> NilError, envelope |-> TRUE, k |-> "object", subs |-> <<>>],
          [err |-> NilError, envelope |-> FALSE, k |-> "malformed", subs |-> <<>>],
          [err |-> NilError, envelope |-> FALSE, k |-> "null", subs |-> <<>>]}
    \cup {[err |-> NilError, envelope |-> FALSE, k |-> "object", subs |-> subs] :
            subs \in SeqUpTo([userid : {JNumber(u) : u \in UserIds},
                              status : {JString("submitted")}], MaxSubmissions)}

\* What the server answers to mod_assign_get_user_flags: the same, with
\* the user flags of the assignments, in order.  extensionduedate may be
\* absent, a number or a string.
FlagReplies ==
    {[err |-> e, envelope |-> FALSE, k |-> "none", userflags |-> <<>>] : e \in FetchErrors}
    \cup {[err |-> NilError, envelope |-> TRUE, k |-> "object", userflags |-> <<>>],
          [err |-> NilError, envelope |-> FALSE, k |-> "malformed", userflags |-> <<>>],
          [err |-> NilError, envelope |-> FALSE, k |-> "null", userflags |-> <<>>]}
    \cup {[err |-> NilError, envelope |-> FALSE, k |-> "object", userflags |-> fs] :
            fs \in SeqUpTo([userid : {JNumber(u) : u \in UserIds},
                            extensionduedate : {JAbsent, JNumber(9), JNumber(0 - 5),
                                                JString("9")}], MaxFlags)}

\* json.Unmarshal([]byte(body), &results) for Result: the submissions as
\* AssignSub{UserId `json:"userid"`, Status `json:"status"`, ...}.
UnmarshalSubmissions(reply) ==
    LET userid == [n \in DOMAIN reply.subs |-> Int64Field(reply.subs[n].userid)]
        status == [n \in DOMAIN reply.subs |-> StringField(reply.subs[n].status)]
    IN  [err |-> \/ reply.k \notin {"object", "null"}
                 \/ \E n \in DOMAIN reply.subs : userid[n].err \/ status[n].err,
         v |-> [n \in DOMAIN reply.subs |->
                   [UserId |-> userid[n].v, Status |-> status[n].v]]]

\* json.Unmarshal([]byte(body), &results2) for Result2: the flags as
\* Flag{UserId `json:"userid"`, Extension `json:"extensionduedate"`, ...}.
UnmarshalFlags(reply) ==
    LET userid == [n \in DOMAIN reply.userflags |-> Int64Field(reply.userflags[n].userid)]
        ext == [n \in DOMAIN reply.userflags |->
                   Int64Field(reply.userflags[n].extensionduedate)]
    IN  [err |-> \/ reply.k \notin {"object", "null"}
                 \/ \E n \in DOMAIN reply.userflags : userid[n].err \/ ext[n].err,
         v |-> [n \in DOMAIN reply.userflags |->
                   [UserId |-> userid[n].v, Extension |-> ext[n].v]]]

\* &AssignmentSubmission{UserId: ..., Status: ..., GradingStatus: ..., Extension: ...}
AssignmentSubmission(userId, status, extension) ==
    [UserId |-> userId, Status |-> status, GradingStatus |-> "", Extension |-> extension]

\* The url of both requests.
SubmissionsUrl(wsfunction, assignmentId) ==
    Query(wsfunction) \o <<"&", "assignmentids[0]", "=", Itoa(assignmentId)>>

\* The body of the loop over the user flags, for the flag k: a flag without
\* extension is skipped; the entries of the user get the extension when it
\* is positive; the local found (foundFlag) is false when it is tested, so
\* an entry with status "new" is appended.
MergeFlag(assignments, k) ==
    IF k.Extension = 0
    THEN assignments
    ELSE LET t == Unix(k.Extension)
             foundFlag == FALSE
             set == [n \in DOMAIN assignments |->
                        IF assignments[n].UserId = k.UserId /\ k.Extension > 0
                        THEN [assignments[n] EXCEPT !.Extension = t]
                        ELSE assignments[n]]
         IN  IF ~foundFlag
             THEN Append(set, AssignmentSubmission(k.UserId, "new", t))
             ELSE set

\* api.GetAssignmentSubmissions(assignmentId)
SubmissionsCall ==
    /\ JobIdle
    /\ job' = [fn |-> "GetAssignmentSubmissions", pc |-> "submissions", assignmentId |-> 5,
               requests |-> <<>>, assignments |-> <<>>, userflags |-> <<>>,
               err |-> NilError]
    /\ UNCHANGED <<evaluator, api, pw>>

\* The first request, the tests of its answer, its decoding and the list
\* made of the submissions.
SubmissionsFetch ==
    /\ job.fn = "GetAssignmentSubmissions" /\ job.pc = "submissions"
    /\ \E reply \in SubmissionReplies :
           LET results == UnmarshalSubmissions(reply)
               sent == [job EXCEPT !.requests =
                           Append(@, SubmissionsUrl("mod_assign_get_submissions",
                                                    job.assignmentId))]
           IN  IF ~reply.err.nil
               THEN job' = [sent EXCEPT !.err = reply.err, !.pc = "done"]
               ELSE IF reply.envelope
               THEN job' = [sent EXCEPT !.err = NewError("body"), !.pc = "done"]
               ELSE IF results.err
               THEN job' = [sent EXCEPT
                               !.err = NewError("Server returned unexpected response. "),
                               !.pc = "done"]
               ELSE job' = [sent EXCEPT
                               !.assignments =
                                   [n \in DOMAIN results.v |->
                                       AssignmentSubmission(results.v[n].UserId,
                                                            results.v[n].Status, NilTime)],
                               !.pc = "flags"]
    /\ UNCHANGED <<evaluator, api, pw>>

\* The second request, the tests of its answer and its decoding.
FlagsFetch ==
    /\ job.fn = "GetAssignmentSubmissions" /\ job.pc = "flags"
    /\ \E reply \in FlagReplies :
           LET results2 == UnmarshalFlags(reply)
               sent == [job EXCEPT !.requests =
                           Append(@, SubmissionsUrl("mod_assign_get_user_flags",
                                                    job.assignmentId))]
           IN  IF ~reply.err.nil
               THEN job' = [sent EXCEPT !.err = reply.err, !.assignments = <<>>,
                                        !.pc = "done"]
               ELSE IF reply.envelope
               THEN job' = [sent EXCEPT !.err = NewError("body"), !.assignments = <<>>,
                                        !.pc = "done"]
               ELSE IF results2.err
               THEN job' = [sent EXCEPT
                               !.err = NewError("Server returned unexpected response. "),
                               !.assignments = <<>>, !.pc = "done"]
               ELSE job' = [sent EXCEPT !.userflags = results2.v, !.pc = "merge"]
    /\ UNCHANGED <<evaluator, api, pw>>

\* One round of the loop over the user flags.
FlagMerge ==
    /\ job.fn = "GetAssignmentSubmissions" /\ job.pc = "merge"
    /\ job.userflags # <<>>
    /\ job' = [job EXCEPT !.assignments = MergeFlag(@, Head(job.userflags)),
                          !.userflags = Tail(@)]
    /\ UNCHANGED <<evaluator, api, pw>>

\* return assignments[:], nil
SubmissionsReturn ==
    /\ job.fn = "GetAssignmentSubmissions" /\ job.pc = "merge"
    /\ job.userflags = <<>>
    /\ job' = [job EXCEPT !.pc = "done"]
    /\ UNCHANGED <<evaluator, api, pw>>

(* ---------------------------- ResetPasswordWithEmail ------------------ *)

\* The fields SetSmtpSettings writes, each blank (0) or given.
SmtpSettings ==
    [smtpHost : {"", "mail.example.com"}, smtpPort : {0, 465},
     smtpUser : {"", "moodle"}, smtpPassword : {"", "secret"},
     smtpFromName : {"", "College"}, smtpFromEmail : {"", "college@example.com"}]

\* What the server answers to the request of GetPersonByEmail.
LookupReplies ==
    {[err |-> e, body |-> NoBody] : e \in FetchErrors}
    \cup {[err |-> NilError, body |-> b] : b \in Bodies("GetPersonByEmail")}

\* The strings RandomPassword returns: letters, digits and "-".
RandomPasswords == {<<"x", "x">>}

\* The password the server holds for every account before the call.
OldPassword == <<"x">>

\* The url of GetPersonByEmail.
PersonByEmailUrl(email) ==
    Query("core_user_get_users_by_field")
    \o <<"&", "field", "=", "email", "&", "values[0]", "=">> \o QueryEscape(email)

\* GetPersonByEmail from the answer to its request on: the test of the
\* fetch error and of the exception, the decoding, the choice of the person.
GetPersonByEmail(reply) ==
    IF ~reply.err.nil
    THEN [ret |-> Nil, err |-> reply.err]
    ELSE IF reply.body.envelope
    THEN [ret |-> Nil, err |-> NewError(readError(reply.body) \o ". url")]
    ELSE LET decoded == UnmarshalUsers(reply.body, "GetPersonByEmail")
         IN  IF decoded.err
             THEN [ret |-> Nil, err |-> NewError("Server returned unexpected response. ")]
             ELSE PersonByEmail(decoded.v.users)

\* The url of ResetPassword.
ResetPasswordUrl(moodleId, password) ==
    Query("core_user_update_users")
    \o <<"&", "users[0][id]", "=", Itoa(moodleId), "&", "users[0][password]", "=">>
    \o QueryEscape(password)

\* ResetPassword taking every answer for a success.
ResetPasswordUnchecked(reply) == NilError

\* The error ResetPassword returns, from the answer to its request.
ResetPassword(reply) ==
    IF ~reply.err.nil THEN reply.err
    ELSE IF reply.body.envelope THEN NewError(readError(reply.body) \o ". url")
    ELSE IF reply.body.k # "null" THEN NewError("Server returned unexpected response: ")
    ELSE NilError

\* The server changes the password when it answers null.
Accepted(reply) == reply.err.nil /\ ~reply.body.envelope /\ reply.body.k = "null"

\* The three tests of the smtp fields.
SmtpRequired(m) ==
    IF m.smtpHost = "" \/ m.smtpPort = 0
    THEN NewError("ResetPasswordWithEmail() requires smtp host and port to be specified.")
    ELSE IF m.smtpUser = "" \/ m.smtpPassword = ""
    THEN NewError("ResetPasswordWithEmail() requires smtp user and password to be specified.")
    ELSE IF m.smtpFromName = "" \/ m.smtpFromEmail = ""
    THEN NewError("ResetPasswordWithEmail() requires smtp from name and email to be specified.")
    ELSE NilError

\* The errors of the calls that send the mail.
SmtpFailures ==
    {NewError("tls.Dial(\"%s:%d\") failed: %v"), NewError("SMTP.NewClient() failed: %v"),
     NewError("SMTP.Auth() failed: %v"), NewError("SMTP.Mail() failed: %v"),
     NewError("SMTP.Rcpt() failed: %v"), NewError("SMTP.Data() failed: %v"),
     NewError("short write"), NewError("SMTP.Close() failed: %v")}

\* api.ResetPasswordWithEmail(email), on a MoodleApi with any smtp fields.
ResetCall ==
    /\ JobIdle
    /\ \E m \in SmtpSettings :
           job' = [fn |-> "ResetPasswordWithEmail", pc |-> "lookup", m |-> m,
                   email |-> <<"x", "@", "x">>, requests |-> <<>>, answers |-> <<>>,
                   p |-> Nil, pwd |-> <<>>, held |-> OldPassword, mail |-> <<>>,
                   err |-> NilError]
    /\ UNCHANGED <<evaluator, api, pw>>

\* p, err := m.GetPersonByEmail(email) and the tests of err and p.
ResetLookup ==
    /\ job.fn = "ResetPasswordWithEmail" /\ job.pc = "lookup"
    /\ \E reply \in LookupReplies :
           LET looked == GetPersonByEmail(reply)
               sent == [job EXCEPT !.requests = Append(@, PersonByEmailUrl(job.email)),
                                   !.answers = Append(@, reply)]
           IN  IF ~looked.err.nil
               THEN job' = [sent EXCEPT !.err = looked.err, !.pc = "done"]
               ELSE IF looked.ret.k = "nil"
               THEN job' = [sent EXCEPT !.err = NewError("Email address not found in moodle"),
                                        !.pc = "done"]
               ELSE job' = [sent EXCEPT !.p = looked.ret, !.pc = "reset"]
    /\ UNCHANGED <<evaluator, api, pw>>

\* pwd := RandomPassword(); err = m.ResetPassword(p.MoodleId, pwd) and the
\* test of err.
ResetUpdate ==
    /\ job.fn = "ResetPasswordWithEmail" /\ job.pc = "reset"
    /\ \E pwd \in RandomPasswords, reply \in Replies :
           LET e == ResetPassword(reply)
               sent == [job EXCEPT
                           !.pwd = pwd,
                           !.requests = Append(@, ResetPasswordUrl(job.p.person.MoodleId, pwd)),
                           !.answers = Append(@, reply),
                           !.held = IF Accepted(reply) THEN pwd ELSE @]
           IN  IF ~e.nil
               THEN job' = [sent EXCEPT !.err = NewError("Password Reset failed. " \o e.msg),
                                        !.pc = "done"]
               ELSE job' = [sent EXCEPT !.pc = "smtp"]
    /\ UNCHANGED <<evaluator, api, pw>>

\* The tests of the smtp fields.
ResetSmtp ==
    /\ job.fn = "ResetPasswordWithEmail" /\ job.pc = "smtp"
    /\ LET e == SmtpRequired(job.m)
       IN  IF ~e.nil
           THEN job' = [job EXCEPT !.err = e, !.pc = "done"]
           ELSE job' = [job EXCEPT !.pc = "send"]
    /\ UNCHANGED <<evaluator, api, pw>>

\* The message and the smtp conversation: a call of it fails, or the
\* message with the password is handed over.
ResetSend ==
    /\ job.fn = "ResetPasswordWithEmail" /\ job.pc = "send"
    /\ \/ \E e \in SmtpFailures : job' = [job EXCEPT !.err = e, !.pc = "done"]
       \/ job' = [job EXCEPT !.mail = Append(@, job.pwd), !.pc = "done"]
    /\ UNCHANGED <<evaluator, api, pw>>

(* ---------------------------- AddUser, AddGroupToCourse --------------- *)

\* What the server answers to core_user_create_users and to
\* core_group_create_groups: a fetch error, no body at all, an exception
\* body, a body that is not JSON, null, an object, or an array of objects
\* whose member id is absent, null, a number or a string.
CreateReplies ==
    {[err |-> e, envelope |-> FALSE, k |-> "none", entries |-> <<>>] : e \in FetchErrors}
    \cup [err : {NilError}, envelope : {FALSE},
          k : {"empty", "malformed", "null", "object"}, entries : {<<>>}]
    \cup {[err |-> NilError, envelope |-> TRUE, k |-> "object", entries |-> <<>>]}
    \cup {[err |-> NilError, envelope |-> FALSE, k |-> "array", entries |-> es] :
            es \in SeqUpTo([id : {JAbsent, JNull, JNumber(5), JString("5")}], MaxListed)}

\* An outcome of a method with the results (int64, error): it returns, or
\* it panics.
Returns(n, e) == [ret |-> n, err |-> e, panicked |-> FALSE]
Panics == [ret |-> 0, err |-> NilError, panicked |-> TRUE]

\* errors.New(text + err.Error()): with err nil the call of Error panics.
ErrorWith(text, e) == IF e.nil THEN Panics ELSE Returns(0, NewError(text \o e.msg))

\* l of AddUser.
AddUserUrl(firstName, lastName, email, username, password) ==
    Query("core_user_create_users")
    \o <<"&", "users[0][firstname]", "=">> \o QueryEscape(firstName)
    \o <<"&", "users[0][lastname]", "=">> \o QueryEscape(lastName)
    \o <<"&", "users[0][email]", "=">> \o QueryEscape(email)
    \o <<"&", "users[0][username]", "=">> \o QueryEscape(username)
    \o IF password = <<>>
       THEN <<"&", "users[0][createpassword]", "=", "1">>
       ELSE <<"&", "users[0][password]", "=">> \o QueryEscape(password)

\* url of AddGroupToCourse.
AddGroupUrl(courseId, groupName, groupDescription) ==
    Query("core_group_create_groups")
    \o <<"&", "groups[0][courseid]", "=", Itoa(courseId)>>
    \o <<"&", "groups[0][name]", "=">> \o QueryEscape(groupName)
    \o <<"&", "groups[0][description]", "=">> \o QueryEscape(groupDescription)

\* AddUser from the answer to its request on.  err is the nil error of the
\* fetch where the length and the member id are tested; data[0]["id"] is
\* asserted to be a float64, which a null and a string are not.
AddUserOutcome(reply) ==
    IF ~reply.err.nil THEN Returns(0, reply.err)
    ELSE IF reply.envelope THEN Returns(0, NewError("Invalid token" \o ". url"))
    ELSE IF reply.k # "array" /\ reply.k # "null"
    THEN Returns(0, NewError("Server returned unexpected response. "))
    ELSE IF Len(reply.entries) # 1
    THEN ErrorWith("Server returned unexpected response. ", reply.err)
    ELSE IF reply.entries[1].id.k = "absent"
    THEN ErrorWith("Server returned unexpected response. ID is missing. ", reply.err)
    ELSE IF reply.entries[1].id.k # "number"
    THEN Panics
    ELSE Returns(reply.entries[1].id.n, NilError)

\* AddGroupToCourse from the answer to its request on; response is a
\* []GroupInfo, GroupInfo{Id int64, ...}.
AddGroupOutcome(reply) ==
    LET id == [n \in DOMAIN reply.entries |-> Int64Field(reply.entries[n].id)]
    IN  IF ~reply.err.nil THEN Returns(0, reply.err)
        ELSE IF reply.k = "empty" THEN Returns(0, NewError("Moodle returned no response"))
        ELSE IF reply.envelope THEN Returns(0, NewError("Invalid token" \o ". url"))
        ELSE IF \/ reply.k # "array" /\ reply.k # "null"
                \/ \E n \in DOMAIN id : id[n].err
        THEN Returns(0, NewError("Moodle returned unexpected response. "))
        ELSE IF Len(reply.entries) # 1
        THEN ErrorWith("Moodle returned unexpected response. ", reply.err)
        ELSE Returns(id[1].v, NilError)

\* id, err := api.AddUser("FirstName", "LastName", "test@montebo.com", "test001", ...)
AddUserCall ==
    /\ JobIdle
    /\ \E email \in Emails, password \in Texts(MaxPassword) :
           job' = [fn |-> "AddUser", pc |-> "request", email |-> email,
                   password |-> password, requests |-> <<>>, answers |-> <<>>,
                   ret |-> 0, err |-> NilError, panicked |-> FALSE]
    /\ UNCHANGED <<evaluator, api, pw>>

\* api.AddGroupToCourse(courseId, groupName, groupDescription)
AddGroupCall ==
    /\ JobIdle
    /\ job' = [fn |-> "AddGroupToCourse", pc |-> "request", email |-> <<>>,
               password |-> <<>>, requests |-> <<>>, answers |-> <<>>,
               ret |-> 0, err |-> NilError, panicked |-> FALSE]
    /\ UNCHANGED <<evaluator, api, pw>>

\* The body of AddUser.
AddUserRequest ==
    /\ job.fn = "AddUser" /\ job.pc = "request"
    /\ IF NoAt(job.email)
       THEN job' = [job EXCEPT !.err = NewError("Invalid email address"), !.pc = "done"]
       ELSE \E reply \in CreateReplies :
                LET out == AddUserOutcome(reply)
                IN  job' = [job EXCEPT
                               !.requests = Append(@, AddUserUrl(<<"x">>, <<"x", "x">>,
                                                                 job.email, <<"x">>,
                                                                 job.password)),
                               !.answers = Append(@, reply),
                               !.ret = out.ret, !.err = out.err,
                               !.panicked = out.panicked, !.pc = "done"]
    /\ UNCHANGED <<evaluator, api, pw>>

\* The body of AddGroupToCourse.
AddGroupRequest ==
    /\ job.fn = "AddGroupToCourse" /\ job.pc = "request"
    /\ \E reply \in CreateReplies :
           LET out == AddGroupOutcome(reply)
           IN  job' = [job EXCEPT
                          !.requests = Append(@, AddGroupUrl(5, <<"x">>, <<"x", "&">>)),
                          !.answers = Append(@, reply),
                          !.ret = out.ret, !.err = out.err,
                          !.panicked = out.panicked, !.pc = "done"]
    /\ UNCHANGED <<evaluator, api, pw>>

(* ---------------------------- the methods together ------------------- *)

JobNext ==
    \/ UpdateUserCall
    \/ UpdateUserRequest
    \/ PictureCall
    \/ PictureUpload
    \/ PictureUpdate
    \/ SubmissionsCall
    \/ SubmissionsFetch
    \/ FlagsFetch
    \/ FlagMerge
    \/ SubmissionsReturn
    \/ ResetCall
    \/ ResetLookup
    \/ ResetUpdate
    \/ ResetSmtp
    \/ ResetSend
    \/ AddUserCall
    \/ AddUserRequest
    \/ AddGroupCall
    \/ AddGroupRequest

JobSpec == Init /\ [][JobNext]_vars

(* ---------------------------- properties ------------------------------- *)

\* A call has just returned: ret is its verdict on the current rules, groups.
Called == pc = "returned"

\* The ids of the conditions of a list, and of the groups of a list.
CondIds(C) == {C[i].Id : i \in DOMAIN C}
GroupIds(gs) == {gs[j].Id : j \in DOMAIN gs}

TypeOK ==
    /\ rules.OP \in Operators
    /\ Len(rules.C) <= MaxConds /\ \A i \in DOMAIN rules.C : rules.C[i] \in Conditions
    /\ rules.Show \in BOOLEAN
    /\ Len(rules.ShowC) <= MaxShowC
    /\ Len(groups) <= MaxGroups /\ \A j \in DOMAIN groups : groups[j] \in LearnerGroups
    /\ pc \in {"caller", "returned"}
    /\ ret \in BOOLEAN
    /\ ci = 0 /\ gi = 0 /\ found = FALSE
    /\ first = <<>> /\ other = IdleGoroutine

\* C1: under "&" the verdict is true iff at least one condition's id is
\* absent from the ids of the learner's groups.
C1_AndRestrictedIffIdMissing ==
    (Called /\ rules.OP = "&") =>
        (ret = (\E i \in DOMAIN rules.C : rules.C[i].Id \notin GroupIds(groups)))

\* C1 witness: the rule {op "&", c [group 10]} evaluated for a learner in
\* groups 10 and 20 is not restricted.
C1_Witness ==
    /\ Called /\ rules.OP = "&"
    /\ rules.C = <<RestrictionC("group", 10, "", 0)>>
    /\ groups = <<CourseGroup(10), CourseGroup(20)>>
    /\ ret = FALSE

\* C2 (as claimed): under "!&" with a non-empty conditions list the verdict
\* is true iff every condition's id is among the learner's group ids.
C2_NotAndRestrictedIffAllMatch ==
    (Called /\ rules.OP = "!&" /\ rules.C # <<>>) =>
        (ret = (\A i \in DOMAIN rules.C : rules.C[i].Id \in GroupIds(groups)))

\* C3: under "|" the verdict is true iff no condition id equals any of the
\* learner's group ids.
C3_OrRestrictedIffDisjoint ==
    (Called /\ rules.OP = "|") =>
        (ret = (CondIds(rules.C) \cap GroupIds(groups) = {}))

\* C3 witness: {op "|", c [group 10, group 20]} for a learner in group 20
\* alone is not restricted.
C3_Witness ==
    /\ Called /\ rules.OP = "|"
    /\ rules.C = <<RestrictionC("group", 10, "", 0), RestrictionC("group", 20, "", 0)>>
    /\ groups = <<CourseGroup(20)>>
    /\ ret = FALSE

C5_EmptyConditions ==
    (Called /\ rules.C = <<>>) =>
        /\ rules.OP = "&"  => ret = FALSE
        /\ rules.OP = "!&" => ret = FALSE
        /\ rules.OP = "|"  => ret = TRUE
        /\ rules.OP = "!|" => ret = FALSE

\* C5 witness: "|" with no conditions, for a learner who has groups, is
\* restricted.
C5_Witness ==
    /\ Called /\ rules.OP = "|" /\ rules.C = <<>>
    /\ Len(groups) = MaxGroups
    /\ ret = TRUE

\* The rule with every condition that is not of kind "group" replaced by
\* one that no group can match (no group has a negative id).
NeverMatching(c) == IF c.Type = "group" THEN c ELSE [c EXCEPT !.Id = -1]
GroupConditionsOnly(r) ==
    [r EXCEPT !.C = [i \in DOMAIN r.C |-> NeverMatching(r.C[i])]]

\* C6 (as claimed): a condition whose Type is not "group" is never counted
\* as matching: the verdict is the one the rule gives with those conditions
\* made unmatchable, for every operator and learner group list.
C6_OnlyGroupConditionsMatch ==
    Called => (ret = IsRestricted(GroupConditionsOnly(rules), groups))

\* C7: for an operator other than "&", "!&", "|", "!|" the verdict is false
\* for every conditions list and learner group list.
C7_UnknownOperatorNotRestricted ==
    (Called /\ rules.OP \notin KnownOperators) => (ret = FALSE)

\* C7 witness: operator "?" with a condition the learner does not match
\* (restricted under "&" and under "|") is not restricted.
C7_Witness ==
    /\ Called /\ rules.OP = "?"
    /\ rules.C = <<RestrictionC("group", 10, "", 0)>>
    /\ groups = <<CourseGroup(0)>>
    /\ ret = FALSE

\* C9: for a rule with exactly one group condition the verdict under "!&"
\* is the negation of the verdict under "&": restricted under "!&" exactly
\* when the learner belongs to that group.
C9_SingleConditionNotAndNegatesAnd ==
    (Called /\ rules.OP = "!&" /\ Len(rules.C) = 1 /\ rules.C[1].Type = "group") =>
        /\ ret = (rules.C[1].Id \in GroupIds(groups))
        /\ ret = ~IsRestricted([rules EXCEPT !.OP = "&"], groups)

\* C9 witness: {op "!&", c [group 10]} for a learner in group 10 is
\* restricted.
C9_Witness ==
    /\ Called /\ rules.OP = "!&"
    /\ rules.C = <<RestrictionC("group", 10, "", 0)>>
    /\ groups = <<CourseGroup(10)>>
    /\ ret = TRUE

\* C10 (as claimed): with no conditions the verdict is false under each of
\* the four operators, for every learner group list.
C10_EmptyNeverRestricted ==
    (Called /\ rules.C = <<>> /\ rules.OP \in KnownOperators) => (ret = FALSE)

\* C10 (amended): with no conditions the verdict is false under "&", "!&"
\* and "!|" and true under "|", for every learner group list.
C10_EmptyRestrictedOnlyUnderOr ==
    (Called /\ rules.C = <<>> /\ rules.OP \in KnownOperators) =>
        (ret = (rules.OP = "|"))

\* C10 witness: "!&" with no conditions, for a learner who has groups, is
\* not restricted.
C10_Witness ==
    /\ Called /\ rules.OP = "!&" /\ rules.C = <<>>
    /\ groups # <<>>
    /\ ret = FALSE

\* The statement-by-statement run returns what the whole call returns.
StepReturnsIsRestricted ==
    (pc = "returned") => (ret = IsRestricted(rules, groups))

\* C8: IsRestricted is total: for every rule (any operator, conditions of
\* any kind and number, Show and ShowC of any length) and every group list
\* (empty, with duplicates) the call never panics and it returns.
C8_Total ==
    /\ [](pc # "panic")
    /\ (pc = "switch") ~> (pc = "returned" /\ ret \in BOOLEAN)

\* C8 witness: a call under "&" on a rule whose ShowC is shorter than its
\* conditions list, for a learner whose group list repeats a group, has run
\* both loops to their end and returned.
C8_Witness ==
    /\ pc = "returned" /\ rules.OP = "&"
    /\ Len(rules.C) = MaxConds /\ Len(rules.ShowC) < Len(rules.C)
    /\ Len(groups) = MaxGroups /\ groups[1] = groups[2]
    /\ ci = Len(rules.C) /\ gi = Len(groups)

\* C11: every call on the same rule and groups returns the same verdict as
\* the first one did, and the verdict is the one a call with no earlier call
\* returns: it does not depend on the calls made before with other rules or
\* groups.
C11_SameVerdictEachTime ==
    (pc = "returned") =>
        /\ (first # <<>>) => (ret = first[1])
        /\ ret = IsRestricted(rules, groups)

\* C11 witness: a repeated call on {op "&", c [group 10]} for a learner in
\* groups 0 and 20 returns restricted again.
C11_Witness ==
    /\ pc = "returned" /\ first = <<TRUE>> /\ ret = TRUE
    /\ rules.OP = "&" /\ rules.C = <<RestrictionC("group", 10, "", 0)>>
    /\ groups = <<CourseGroup(0), CourseGroup(20)>>

\* C12: no statement of IsRestricted assigns to the rule (OP, C, Show,
\* ShowC) or to the caller's groups: they hold after every step of a call,
\* and so after the call, the values they held before it.
C12_InputsUnchanged ==
    [][(~AtCaller) => (rules' = rules /\ groups' = groups)]_vars

\* C12 witness: a call on a rule with an unknown operator, Show set, ShowC
\* and C not empty, and a non-empty group list has returned.
C12_Witness ==
    /\ pc = "returned" /\ rules.OP = "?"
    /\ rules.Show /\ rules.ShowC # <<>> /\ rules.C # <<>>
    /\ groups # <<>>

\* C13: with two goroutines inside IsRestricted at once and no goroutine
\* assigning to the rule or the group lists, under every interleaving of
\* their statements each call returns the verdict the same call returns
\* when it runs alone, and neither call panics.
C13_ConcurrentCallsIsolated ==
    /\ pc # "panic" /\ other.pc # "panic"
    /\ (pc = "returned") => (ret = IsRestricted(rules, groups))
    /\ (other.pc = "returned") =>
           (other.ret = IsRestricted(other.rules, other.groups))

\* C13 witness: under "&", one goroutine has returned restricted (its learner
\* is not in group 10) while the other is suspended in the middle of its call
\* having found its learner in group 10.
C13_Witness ==
    /\ pc = "returned" /\ ret = TRUE /\ rules.OP = "&"
    /\ groups = <<CourseGroup(0)>>
    /\ other.pc = "and_if" /\ other.found = TRUE
    /\ other.groups = <<CourseGroup(10)>>

\* The ids of a set in increasing order, each once.
RECURSIVE SortedIds(_)
SortedIds(S) ==
    IF S = {} THEN <<>>
    ELSE LET m == CHOOSE x \in S : \A y \in S : x <= y
         IN  <<m>> \o SortedIds(S \ {m})

\* A conditions list and a group list that carry nothing but an id set:
\* one entry per id, in increasing order, with the fields other than Id
\* given values no caller's list has.
IdsOnlyC(C) ==
    LET ids == SortedIds(CondIds(C))
    IN  [i \in DOMAIN ids |-> RestrictionC("", ids[i], "", 0)]
IdsOnlyGroups(gs) ==
    LET ids == SortedIds(GroupIds(gs))
    IN  [j \in DOMAIN ids |-> [Id |-> ids[j], Name |-> "n", Description |-> "d"]]

\* C14: the verdict is a function of the operator, the set of condition ids
\* and the set of group ids: a call returns what it returns on the lists
\* reduced to their id sets, so duplicates, order, Type, Name, Show and ShowC
\* do not change it.
C14_VerdictOfIdSets ==
    Called =>
        ret = IsRestricted([OP |-> rules.OP, C |-> IdsOnlyC(rules.C),
                            Show |-> FALSE, ShowC |-> <<>>],
                           IdsOnlyGroups(groups))

\* C14 witness: a call under "&" with a duplicated condition and the groups
\* in decreasing id order, the matching group first, returned not restricted.
C14_Witness ==
    /\ Called /\ ret = FALSE /\ rules.OP = "&"
    /\ rules.C = <<RestrictionC("group", 20, "", 0), RestrictionC("group", 20, "", 0)>>
    /\ groups = <<CourseGroup(20), CourseGroup(0)>>

\* C15: Show and ShowC take no part in the verdict: for every value of Show
\* and every ShowC, of the length of C or not, the call reads no element
\* that is not there and returns what it returns on the same operator and
\* conditions with Show false and ShowC empty.
C15_ShowIgnored ==
    /\ pc # "panic"
    /\ (pc = "returned") =>
           (ret = IsRestricted([NewRestrictionValue EXCEPT !.OP = rules.OP,
                                                           !.C = rules.C],
                               groups))

\* C15 witness: a call under "|" with Show set and a ShowC of one entry,
\* false, on two conditions returned not restricted on the first condition,
\* the one ShowC marks hidden.
C15_Witness ==
    /\ pc = "returned" /\ ret = FALSE /\ rules.OP = "|"
    /\ rules.Show /\ rules.ShowC = <<FALSE>>
    /\ Len(rules.C) = 2 /\ ci = 1
    /\ rules.C[2].Id \notin GroupIds(groups)

\* GetCourseModule (resp. a getter of accounts) has returned.
ModuleReturned == api.fn = "GetCourseModule" /\ api.pc = "done"
PersonReturned == api.fn \in PersonGetters /\ api.pc = "done"

\* C16: when GetCourseModule returns a module whose availability was an
\* object, every member the payload carries (op, each condition's type, id,
\* d and t, show, each entry of showc) is in the decoded rule with the
\* payload's value, and marshalling the decoded rule and unmarshalling the
\* text again gives the same rule without error.
C16_DecodeLossless ==
    (ModuleReturned /\ api.err.nil /\ api.result.CM.Availability.k = "object") =>
        LET o == api.result.CM.Availability.o
            r == api.ret.cm.Availability
        IN  /\ (o.op.k = "string") => (r.OP = o.op.s)
            /\ (o.show.k = "bool") => (r.Show = o.show.b)
            /\ (o.c.k = "array") =>
                   /\ Len(r.C) = Len(o.c.a)
                   /\ \A i \in DOMAIN o.c.a :
                          /\ (o.c.a[i].type.k = "string") => (r.C[i].Type = o.c.a[i].type.s)
                          /\ (o.c.a[i].id.k = "number") => (r.C[i].Id = o.c.a[i].id.n)
                          /\ (o.c.a[i].d.k = "string") => (r.C[i].D = o.c.a[i].d.s)
                          /\ (o.c.a[i].t.k = "number") => (r.C[i].T = o.c.a[i].t.n)
            /\ (o.showc.k = "array") =>
                   /\ Len(r.ShowC) = Len(o.showc.a)
                   /\ \A i \in DOMAIN o.showc.a : r.ShowC[i] = o.showc.a[i].b
            /\ UnmarshalRestriction(MarshalRestriction(r), NewRestrictionValue) = NoError(r)

\* C16 witness: GetCourseModule returned a module whose rule came from a
\* payload with an operator, a date condition (d and t, no id), show and
\* showc.
C16_Witness ==
    /\ ModuleReturned /\ api.err.nil /\ api.ret.k = "module"
    /\ api.result.CM.Availability.k = "object"
    /\ api.ret.cm.Availability =
           [OP |-> "&", C |-> <<RestrictionC("date", 0, ">=", 1541682000)>>,
            Show |-> TRUE, ShowC |-> <<FALSE>>]

\* The availability text is not JSON, or is an object without "op" or with
\* a condition without "id".
LacksOperatorOrId(text) ==
    \/ text.k = "malformed"
    \/ /\ text.k = "object"
       /\ \/ text.o.op.k = "absent"
          \/ \E i \in DOMAIN text.o.c.a : text.o.c.a[i].id.k = "absent"

\* C17: when the availability text GetCourseModule decodes is malformed or
\* lacks the operator or a condition's id, it returns an error and no
\* module.
C17_DecodeErrorOnMissingFields ==
    (ModuleReturned /\ LacksOperatorOrId(api.result.CM.Availability)) =>
        (api.ret.k = "nil" /\ ~api.err.nil)

\* The steps of a getter in the order of its statements.
GetterSteps == <<"fetch", "check", "unmarshal", "project", "availability">>

Listed(body) == IF body.k = "array" THEN Len(body.us) ELSE 0

\* C19: a getter of accounts never returns a person and an error; when the
\* response decodes, it returns no person and no error for no account, the
\* account for one, and no person and an error for more than one.
C19_PersonByCount ==
    PersonReturned =>
        /\ ~(api.ret.k = "person" /\ ~api.err.nil)
        /\ (api.fetchErr.nil /\ ~api.body.envelope /\ ~Unmarshal(api.fn, api.body).err) =>
               CASE Listed(api.body) = 0 -> api.ret.k = "nil" /\ api.err.nil
                 [] Listed(api.body) = 1 ->
                        /\ api.ret.k = "person" /\ api.err.nil
                        /\ api.ret.person.MoodleId = api.body.us[1].id.n
                        /\ api.ret.person.Username = api.body.us[1].username.s
                 [] OTHER -> api.ret.k = "nil" /\ ~api.err.nil

\* C19 witness: GetPersonByEmail returned an error and no person for a
\* response that lists two accounts.
C19_Witness ==
    /\ PersonReturned /\ api.fn = "GetPersonByEmail"
    /\ Listed(api.body) = 2 /\ "project" = api.trace[Len(api.trace)]
    /\ api.ret.k = "nil" /\ ~api.err.nil

\* The character classes of a byte.
IsUpper(c) == Ord("A") <= c /\ c <= Ord("Z")
IsLower(c) == Ord("a") <= c /\ c <= Ord("z")
IsDigit(c) == Ord("0") <= c /\ c <= Ord("9")

\* C20: the string RandomPassword returns has 11 characters, a dash as the
\* sixth and nowhere else, and among them an uppercase letter, a lowercase
\* letter and a digit.
C20_PasswordClassesAndForm ==
    (pw.pc = "done") =>
        /\ Len(pw.ret) = 11
        /\ \A k \in DOMAIN pw.ret : (pw.ret[k] = Ord("-")) <=> (k = 6)
        /\ \E k \in DOMAIN pw.ret : IsUpper(pw.ret[k])
        /\ \E k \in DOMAIN pw.ret : IsLower(pw.ret[k])
        /\ \E k \in DOMAIN pw.ret : IsDigit(pw.ret[k])

\* C20 witness: a password was returned whose only uppercase letter is the
\* last character, put there by the first if of the loop body as the 'A'
\* that replaces 'O'.
C20_Witness ==
    /\ pw.pc = "done" /\ ~pw.hasUppercase
    /\ pw.ret[11] = Ord("A")
    /\ \A k \in 1..10 : ~IsUpper(pw.ret[k])

\* C21: in a returned password no generated character equals the one
\* before it or is its successor in byte value.
C21_NoRepeatedOrIncrementing ==
    (pw.pc = "done") =>
        \A k \in 1..(size - 1) :
            /\ pw.bytes[k + 1] # pw.bytes[k]
            /\ pw.bytes[k + 1] # Uint8(pw.bytes[k] + 1)

\* The verdict of the current rule with its operator replaced by op.
VerdictUnder(op) == IsRestricted([rules EXCEPT !.OP = op], groups)

InsertAt(gs, k, g) == SubSeq(gs, 1, k - 1) \o <<g>> \o SubSeq(gs, k, Len(gs))

\* C28: when a call under "&" or "|" returned not restricted, the learner
\* with one more group, put anywhere in the list, is not restricted either;
\* when a call under "!&" or "!|" returned restricted, the learner with one
\* more group is restricted too.
C28_MonotoneInGroups ==
    Called =>
        \A g \in LearnerGroups : \A k \in 1..(Len(groups) + 1) :
            LET more == IsRestricted(rules, InsertAt(groups, k, g))
            IN  /\ (rules.OP \in {"&", "|"} /\ ~ret) => ~more
                /\ (rules.OP \in {"!&", "!|"} /\ ret) => more

\* C28 witness: a call under "|" returned not restricted for a learner
\* whose only group matches a condition, and a group that matches none
\* can still be added.
C28_Witness ==
    /\ Called /\ ret = FALSE /\ rules.OP = "|"
    /\ rules.C = <<RestrictionC("group", 10, "", 0)>>
    /\ groups = <<CourseGroup(10)>>

\* C22: every request UpdateUser issues carries the parameter
\* users[0][password] exactly when the password argument is not "", then with
\* the argument as its value, and carries id, firstname, lastname, email and
\* username with the arguments as their values in both cases.
C22_PasswordOnlyWhenGiven ==
    (job.fn = "UpdateUser") =>
        \A n \in DOMAIN job.requests :
            LET l == job.requests[n]
            IN  /\ (Values(l, "users[0][password]") # {}) <=> (job.password # <<>>)
                /\ (job.password # <<>>) =>
                       (Values(l, "users[0][password]") = {job.password})
                /\ Values(l, "users[0][id]") = {<<Itoa(job.id)>>}
                /\ Values(l, "users[0][firstname]") = {job.firstName}
                /\ Values(l, "users[0][lastname]") = {job.lastName}
                /\ Values(l, "users[0][email]") = {job.email}
                /\ Values(l, "users[0][username]") = {job.username}

\* C22 witness: UpdateUser returned nil after a request made with a blank
\* password and a username that spells a password parameter.
C22_Witness ==
    /\ job.fn = "UpdateUser" /\ job.pc = "done" /\ job.err.nil
    /\ Len(job.requests) = 1 /\ job.password = <<>>
    /\ job.username = <<"&", "users[0][password]", "=", "x">>

\* C23: when SetProfilePicture returns nil it has issued three requests:
\* the upload of the draft file, the update of the picture with the item id
\* the upload returned, and the removal of the draft file.
C23_UploadSetRemove ==
    (job.fn = "SetProfilePicture" /\ job.pc = "done" /\ job.err.nil) =>
        /\ Len(job.requests) = 3
        /\ Values(job.requests[1], "wsfunction") = {<<"core_files_upload">>}
        /\ Values(job.requests[2], "wsfunction") = {<<"core_user_update_picture">>}
        /\ Values(job.requests[2], "draftitemid") = {<<Itoa(job.draftFileId)>>}
        /\ Values(job.requests[3], "delete") = {<<"1">>}

\* C24: in GetAssignmentSubmissions a user flag with a non-zero extension
\* is added to the entries the user has, and then the list does not grow,
\* or, when the user has no entry, is appended as an entry with status
\* "new"; never both.
C24_AddedOrAppended ==
    [][(/\ job.fn = "GetAssignmentSubmissions"
        /\ job.pc = "merge"
        /\ job.userflags # <<>>
        /\ Head(job.userflags).Extension # 0)
       => LET k == Head(job.userflags)
              had == {n \in DOMAIN job.assignments : job.assignments[n].UserId = k.UserId}
              after == job'.assignments
          IN  IF had # {}
              THEN /\ Len(after) = Len(job.assignments)
                   /\ \A n \in had : after[n].Extension = Unix(k.Extension)
              ELSE after = Append(job.assignments,
                                  AssignmentSubmission(k.UserId, "new", Unix(k.Extension)))]_vars

\* The answer lists exactly one account.
OneAccount(reply) ==
    /\ reply.err.nil /\ ~reply.body.envelope
    /\ reply.body.k = "array" /\ Len(reply.body.us) = 1

\* C25: ResetPasswordWithEmail issues the request that updates the password
\* only after the lookup by email, and only when the lookup answered with
\* exactly one account; once it has returned a "requires smtp ..." error the
\* update has been issued and accepted, the server holds the new password,
\* and no mail has been sent.
C25_UpdateAfterLookupSmtpAfterUpdate ==
    (job.fn = "ResetPasswordWithEmail") =>
        /\ \A n \in DOMAIN job.requests :
               IF n = 1
               THEN Values(job.requests[n], "wsfunction") = {<<"core_user_get_users_by_field">>}
               ELSE /\ n = 2
                    /\ Values(job.requests[n], "wsfunction") = {<<"core_user_update_users">>}
                    /\ OneAccount(job.answers[1])
                    /\ Values(job.requests[n], "users[0][id]")
                           = {<<Itoa(job.answers[1].body.us[1].id.n)>>}
        /\ (job.pc = "done" /\ ~job.err.nil /\ job.err = SmtpRequired(job.m)) =>
               /\ Len(job.requests) = 2
               /\ Accepted(job.answers[2])
               /\ job.held = job.pwd /\ job.pwd \in RandomPasswords
               /\ job.mail = <<>>

\* C25 witness: the call returned the error about the smtp host and port
\* after the server accepted the new password.
C25_Witness ==
    /\ job.fn = "ResetPasswordWithEmail" /\ job.pc = "done"
    /\ job.err = NewError("ResetPasswordWithEmail() requires smtp host and port to be specified.")
    /\ Len(job.requests) = 2 /\ job.held # OldPassword

\* C26: when the fetch succeeded and the body is a JSON array of a length
\* other than 1, AddUser and AddGroupToCourse return 0 and an error, and do
\* not panic; so does AddUser when the one entry of the array has no "id".
C26_ErrorNotPanic ==
    (/\ job.fn \in {"AddUser", "AddGroupToCourse"}
     /\ job.pc = "done"
     /\ job.answers # <<>>) =>
        LET reply == job.answers[1]
        IN  (/\ reply.err.nil /\ ~reply.envelope /\ reply.k = "array"
             /\ \/ Len(reply.entries) # 1
                \/ /\ job.fn = "AddUser"
                   /\ Len(reply.entries) = 1
                   /\ reply.entries[1].id.k = "absent")
            => (~job.panicked /\ job.ret = 0 /\ ~job.err.nil)

====
